---- MODULE Spec2Model ----
(***************************************************************************)
(* Model of the streaming pipeline of the anomaly-detection system:        *)
(*   src/src/stream_processor.py  (StreamProcessor: Ingestor, Worker,      *)
(*                                 start/stop)                             *)
(*   src/src/anomaly_detector.py  (AnomalyDetector: ensemble evaluation)   *)
(*                                                                         *)
(* Three threads of control act on one StreamProcessor: the thread that    *)
(* called start() and runs _consume_messages (the Ingestor), the           *)
(* processing_thread running _process_messages (the Worker), and the       *)
(* thread that calls stop().  Time is a discrete clock advanced by Tick;   *)
(* every time difference the code compares against a limit is kept as a    *)
(* counter saturating at that limit.                                       *)
(*                                                                         *)
(* Specifications: Spec and FairSpec (the pipeline, without and with       *)
(* fairness), CommitSpec (the pipeline with the client's auto-commit),     *)
(* HandleSpec (_handle_anomaly_result call by call against a failing       *)
(* broker and store), MetricsSpec (_update_metrics against get_metrics),   *)
(* PublishSpec (_publish_message alone), BatchSpec (_process_batch call    *)
(* by call), IngestSpec (the pipeline on a stream with records that lack   *)
(* id and timestamp), DetSpec (the detector's evaluation), WorkersSpec     *)
(* (two workers in _update_metrics on one store), ConfigSpec (the pipeline *)
(* under any StreamConfig), RestartSpec (the pipeline with a start() after *)
(* stop()) and LifecycleSpec (the detector's train, save_models and        *)
(* load_models).                                                           *)
(***************************************************************************)
EXTENDS Integers, Sequences, FiniteSets, TLC

\* ------------------------------------------------------------------ bounds
\* Number of records the broker delivers in one behaviour.
MaxEvents == 2
\* Queue(maxsize=1000) at stream_processor.py:62, scaled down.
QueueMaxsize == 1
\* StreamConfig.batch_size (default 100), scaled down.
BatchSize == 2
\* StreamConfig.batch_timeout in clock ticks (default 5), scaled down.
BatchTimeout == 1
\* processing_thread.join(timeout=5) in clock ticks, scaled down.
JoinTimeout == 1
\* Length kept by ltrim('recent_alerts', 0, 99) at line 336, scaled down.
RecentAlertsMax == 1
\* Largest number of consecutive failed transmissions of one send.
MaxFailures == 4
\* Number of start() calls that follow a stop() in one behaviour of
\* RestartSpec.
MaxRestarts == 1
\* Number of writes to the model directory that raise in one behaviour of
\* LifecycleSpec.
MaxDiskFaults == 1
\* Number of _handle_anomaly_result calls in one behaviour of HandleSpec.
MaxCalls == 2
\* Number of store calls that raise in one behaviour of HandleSpec.
MaxStoreFaults == 1

Min(a, b) == IF a < b THEN a ELSE b

\* ------------------------------------------------------------- detector
\* self.models.keys() in insertion order (_initialize_models).
Backends == <<"isolation_forest", "one_class_svm", "autoencoder", "statistical">>

\* Outcome of _single_model_detection when it raises.
Raise == [raised |-> TRUE]

\* Confidence values a backend may report, in tenths (min(confidence, 1.0)).
ConfLevels == {0, 5, 8, 10}

\* AnomalyResult of one backend, reduced to the fields the pipeline reads.
Verdicts == [is_anomaly : BOOLEAN, confidence : ConfLevels]

\* What the four backends do on one data point: a verdict or an exception.
BackendOutputs == [1..Len(Backends) -> Verdicts \cup {Raise}]

\* Variant of CollectResults without the try/except of lines 283-287: the
\* first backend that raises leaves no verdict at all.
CollectResultsNoExcept(outs, i) ==
    IF \E j \in i..Len(Backends) : outs[j] = Raise THEN <<>>
    ELSE [j \in 1..(Len(Backends) - i + 1) |-> outs[i + j - 1]]

\* Lines 280-287: the list `results`, in backend order, failures skipped.
RECURSIVE CollectResults(_, _)
CollectResults(outs, i) ==
    IF i > Len(Backends) THEN <<>>
    ELSE IF outs[i] = Raise THEN CollectResults(outs, i + 1)
         ELSE <<outs[i]>> \o CollectResults(outs, i + 1)

\* sum(1 for r in results if r.is_anomaly), line 293.
RECURSIVE AnomalyVotes(_)
AnomalyVotes(results) ==
    IF results = <<>> THEN 0
    ELSE (IF Head(results).is_anomaly THEN 1 ELSE 0) + AnomalyVotes(Tail(results))

\* Sum of the confidences, numerator of np.mean at line 297.
RECURSIVE ConfidenceSum(_)
ConfidenceSum(results) ==
    IF results = <<>> THEN 0
    ELSE Head(results).confidence + ConfidenceSum(Tail(results))

\* Variant of MajorityVote in which a tie counts as an anomaly (>= for >).
MajorityVoteTieAnomalous(votes, n) == 2 * votes >= n

\* anomaly_votes > len(results) / 2 with true division, line 294.
MajorityVote(votes, n) == 2 * votes > n

\* Error values of the detector.
NoModelError == "No models could process the data point"
UntrainedError == "Models must be trained before detection"

\* _ensemble_detection, lines 276-310. The mean confidence is kept exactly
\* as the pair (sum of tenths, number of verdicts).
EnsembleDetection(outs) ==
    LET results == CollectResults(outs, 1) IN
    IF results = <<>> THEN [error |-> NoModelError]
    ELSE [is_anomaly |-> MajorityVote(AnomalyVotes(results), Len(results)),
          conf_sum   |-> ConfidenceSum(results),
          conf_n     |-> Len(results),
          model_used |-> "ensemble"]

IsError(r) == "error" \in DOMAIN r

\* Keys of self.scalers (and of self.thresholds): one per backend, lines
\* 81-83.
ScalerKeys == {Backends[i] : i \in 1..Len(Backends)}

\* A name that is no key of self.models.
UnregisteredName == "no_such_model"

\* Values detect_anomaly may get as model_name.
ModelNames == {"ensemble", UnregisteredName} \cup ScalerKeys

\* Position of a registered backend in Backends.
BackendIndex(model_name) ==
    CHOOSE i \in 1..Len(Backends) : Backends[i] = model_name

\* Errors of _single_model_detection: self.scalers[model_name] at line 236
\* raises KeyError for a name that is no key; the else branch at lines
\* 263-264 raises ValueError("Unknown model: ..."); a backend may raise
\* while scoring.
KeyError == "KeyError"
UnknownModelError == "Unknown model"
BackendError == "backend raised"

\* _single_model_detection, lines 231-274. The scaler lookup at line 236
\* comes before the chain of name tests of lines 238-264.
SingleModelDetection(model_name, outs) ==
    IF model_name \notin ScalerKeys THEN [error |-> KeyError]
    ELSE IF model_name \in {"isolation_forest", "one_class_svm",
                            "autoencoder", "statistical"}
         THEN LET o == outs[BackendIndex(model_name)] IN
              IF o = Raise THEN [error |-> BackendError]
              ELSE [is_anomaly |-> o.is_anomaly,
                    conf_sum   |-> o.confidence,
                    conf_n     |-> 1,
                    model_used |-> model_name]
         ELSE [error |-> UnknownModelError]

\* Variant of DetectAnomalyModel without the is_trained test of lines
\* 219-220.
DetectAnomalyModelUnchecked(trained, model_name, outs) ==
    IF model_name = "ensemble" THEN EnsembleDetection(outs)
    ELSE SingleModelDetection(model_name, outs)

\* detect_anomaly(data_point, model_name), lines 206-229.
DetectAnomalyModel(trained, model_name, outs) ==
    IF ~trained THEN [error |-> UntrainedError]
    ELSE IF model_name = "ensemble" THEN EnsembleDetection(outs)
         ELSE SingleModelDetection(model_name, outs)

\* The backends whose scoring code a call detect_anomaly(_, model_name)
\* enters: none when line 220 raises, all of self.models in ensemble mode
\* (line 282), the named one in single mode when line 236 finds its scaler.
BackendsInvoked(trained, model_name) ==
    IF ~trained THEN {}
    ELSE IF model_name = "ensemble" THEN ScalerKeys
    ELSE IF model_name \in ScalerKeys THEN {model_name}
    ELSE {}

\* detect_anomaly with the default model_name = 'ensemble'.
DetectAnomaly(trained, outs) == DetectAnomalyModel(trained, "ensemble", outs)

\* Variant of BatchDetect that scores every row with the statistical
\* backend alone.
RECURSIVE BatchDetectStatistical(_, _)
BatchDetectStatistical(trained, datas) ==
    IF datas = <<>> THEN [ok |-> TRUE, results |-> <<>>]
    ELSE LET r == DetectAnomalyModel(trained, "statistical", Head(datas)) IN
         IF IsError(r) THEN [ok |-> FALSE, results |-> <<>>]
         ELSE LET rest == BatchDetectStatistical(trained, Tail(datas)) IN
              IF rest.ok THEN [ok |-> TRUE, results |-> <<r>> \o rest.results]
              ELSE rest

\* batch_detect, lines 325-332: results in row order; the first row whose
\* detect_anomaly raises aborts the whole call and no list is returned.
RECURSIVE BatchDetect(_, _)
BatchDetect(trained, datas) ==
    IF datas = <<>> THEN [ok |-> TRUE, results |-> <<>>]
    ELSE LET r == DetectAnomaly(trained, Head(datas)) IN
         IF IsError(r) THEN [ok |-> FALSE, results |-> <<>>]
         ELSE LET rest == BatchDetect(trained, Tail(datas)) IN
              IF rest.ok THEN [ok |-> TRUE, results |-> <<r>> \o rest.results]
              ELSE rest

\* ------------------------------------------------- result handling, store
\* KafkaProducer(..., retries=3), line 81: resends the client makes itself.
ProducerRetries == 3

\* StreamConfig.max_retries: int = 3, line 38.
DefaultMaxRetries == 3

\* Values of config.max_retries: the default and a larger one.
RetryConfigs == {DefaultMaxRetries, MaxFailures}

\* 'high' if result.confidence > 0.8, line 283; 0.8 in tenths.
SeverityThreshold == 8

\* redis get() of a key that does not exist returns None.
Nil == -1

\* A dict without entries: the hashes before their first hincrby, and the
\* value get_metrics returns from its except branch (line 385).
EmptyDict == <<>>

\* The store before anything was written.
EmptyRedis ==
    [total_processed      |-> Nil,
     anomalies_detected   |-> Nil,
     confidence_histogram |-> EmptyDict,
     model_usage          |-> EmptyDict,
     recent_alerts        |-> <<>>,
     alerts               |-> EmptyDict]

\* The output and alert topics before anything was published.
EmptyTopics == [output |-> <<>>, alert |-> <<>>]

\* A value the handler copies into a record without looking at it, named
\* by the expression it is read from and the event it belongs to.
Copied(expr, id) == [expr |-> expr, event |-> id]

\* result.confidence: the mean conf_sum / conf_n, in tenths.
Confidence(r) == [sum |-> r.conf_sum, n |-> r.conf_n]

\* output_message, lines 262-272.
OutputMessage(id, r) ==
    [id         |-> id,
     timestamp  |-> Copied("result.timestamp.isoformat()", id),
     source     |-> Copied("message.source", id),
     is_anomaly |-> r.is_anomaly,
     confidence |-> Confidence(r),
     score      |-> Copied("result.score", id),
     model_used |-> r.model_used,
     features   |-> Copied("result.features", id),
     metadata   |-> Copied("message.metadata or {}", id)]

\* Variant of Severity with >= for >.
SeverityAtLeast(r) ==
    IF r.conf_sum >= SeverityThreshold * r.conf_n THEN "high" ELSE "medium"

\* Line 283: 'high' if result.confidence > 0.8 else 'medium'.
Severity(r) ==
    IF r.conf_sum > SeverityThreshold * r.conf_n THEN "high" ELSE "medium"

\* alert_message, lines 279-290; it has no is_anomaly entry.
AlertMessage(id, r) ==
    [id         |-> id,
     timestamp  |-> Copied("result.timestamp.isoformat()", id),
     source     |-> Copied("message.source", id),
     severity   |-> Severity(r),
     confidence |-> Confidence(r),
     score      |-> Copied("result.score", id),
     model_used |-> r.model_used,
     features   |-> Copied("result.features", id),
     message    |-> [text |-> "Anomaly detected with confidence",
                     confidence |-> Confidence(r)],
     metadata   |-> Copied("message.metadata or {}", id)]

\* int(result.confidence * 10), line 353.
ConfidenceBucket(r) == r.conf_sum \div r.conf_n

\* The calls _store_alert makes inside its try block, lines 327-336.
StoreAlertOps(alert) ==
    <<[op |-> "setex", block |-> "store", arg |-> alert],
      [op |-> "lpush", block |-> "store", arg |-> alert.id],
      [op |-> "ltrim", block |-> "store", arg |-> alert.id]>>

\* Variant of UpdateMetricsOps that counts the anomaly before the event.
UpdateMetricsOpsAnomalyFirst(r) ==
    (IF r.is_anomaly
     THEN <<[op |-> "incr_anomalies", block |-> "metrics", arg |-> 0]>>
     ELSE <<>>)
    \o <<[op |-> "incr_total", block |-> "metrics", arg |-> 0],
          [op |-> "hincrby_histogram", block |-> "metrics",
           arg |-> ConfidenceBucket(r)],
          [op |-> "hincrby_usage", block |-> "metrics", arg |-> r.model_used]>>

\* The calls _update_metrics makes inside its try block, lines 345-357.
UpdateMetricsOps(r) ==
    <<[op |-> "incr_total", block |-> "metrics", arg |-> 0]>>
    \o (IF r.is_anomaly
        THEN <<[op |-> "incr_anomalies", block |-> "metrics", arg |-> 0]>>
        ELSE <<>>)
    \o <<[op |-> "hincrby_histogram", block |-> "metrics",
          arg |-> ConfidenceBucket(r)],
         [op |-> "hincrby_usage", block |-> "metrics", arg |-> r.model_used]>>

\* Variant of HandleAnomalyResult that updates the metrics first.
HandleAnomalyResultMetricsFirst(id, r) ==
    UpdateMetricsOps(r)
    \o <<[op |-> "send", block |-> "output", arg |-> OutputMessage(id, r)]>>
    \o (IF r.is_anomaly
        THEN <<[op |-> "send", block |-> "alert", arg |-> AlertMessage(id, r)]>>
             \o StoreAlertOps(AlertMessage(id, r))
        ELSE <<>>)

\* Variant of HandleAnomalyResult that alerts on every result.
HandleAnomalyResultAlways(id, r) ==
    <<[op |-> "send", block |-> "output", arg |-> OutputMessage(id, r)]>>
    \o <<[op |-> "send", block |-> "alert", arg |-> AlertMessage(id, r)]>>
    \o StoreAlertOps(AlertMessage(id, r))
    \o UpdateMetricsOps(r)

\* _handle_anomaly_result(message, result), lines 258-298: the broker and
\* store calls it makes, in program order. `block` names the try block a
\* call is in: each send has its own (in _publish_message).
HandleAnomalyResult(id, r) ==
    <<[op |-> "send", block |-> "output", arg |-> OutputMessage(id, r)]>>
    \o (IF r.is_anomaly
        THEN <<[op |-> "send", block |-> "alert", arg |-> AlertMessage(id, r)]>>
             \o StoreAlertOps(AlertMessage(id, r))
        ELSE <<>>)
    \o UpdateMetricsOps(r)

\* Variant of Remaining in which an exception ends the handler.
RemainingNoneAfterRaise(ops, raised) ==
    IF raised THEN <<>> ELSE Tail(ops)

\* What is left to do after the first call of `ops`: when it raised, the
\* except clause of its try block (lines 318, 338, 359) skips the calls
\* that remain in that block; nothing is re-raised.
Remaining(ops, raised) ==
    IF raised
    THEN SelectSeq(Tail(ops), LAMBDA o : o.block # Head(ops).block)
    ELSE Tail(ops)

\* producer.send + future.get, lines 304-311, when the broker fails the
\* first `failures` transmissions: the client resends ProducerRetries
\* times; a closed producer raises at once. TRUE when the record is
\* acknowledged.
SendAcked(closed, failures) == ~closed /\ failures <= ProducerRetries

\* Transmissions the client makes for one send.
SendAttempts(closed, failures) ==
    IF closed THEN 0
    ELSE IF failures <= ProducerRetries THEN failures + 1
    ELSE ProducerRetries + 1

\* The Python type of the value a record of the handler holds under `key`
\* (StreamMessage lines 42-48, AnomalyResult lines 29-37 of
\* anomaly_detector.py; _ensemble_detection makes is_anomaly with a
\* comparison of Python numbers, a bool).
PyType(key) ==
    CASE key = "is_anomaly"                -> "bool"
      [] key \in {"confidence", "score"}   -> "float"
      [] key \in {"features", "metadata"}  -> "dict"
      [] OTHER                             -> "str"

\* Variant of JsonDumps that writes a float with no decimal beyond tenths.
JsonDumpsRounded(v) ==
    [key \in DOMAIN v |->
        CASE PyType(key) = "bool" ->
                [json |-> IF v[key] THEN "true" ELSE "false"]
          [] PyType(key) = "float" /\ key = "confidence" ->
                [json |-> "number",
                 repr |-> [sum |-> v[key].sum \div v[key].n, n |-> 1]]
          [] PyType(key) = "float" /\ key # "confidence" ->
                [json |-> "number", repr |-> v[key]]
          [] PyType(key) = "dict" ->
                [json |-> "object", members |-> v[key]]
          [] OTHER ->
                [json |-> "string", chars |-> v[key]]]

\* json.dumps(v) of a record of the handler: per key the JSON token of its
\* value. A bool is written as the literal true or false, a float by its
\* repr (which names the float exactly), a str quoted, a dict as an object.
JsonDumps(v) ==
    [key \in DOMAIN v |->
        CASE PyType(key) = "bool" ->
                [json |-> IF v[key] THEN "true" ELSE "false"]
          [] PyType(key) = "float" ->
                [json |-> "number", repr |-> v[key]]
          [] PyType(key) = "dict" ->
                [json |-> "object", members |-> v[key]]
          [] OTHER ->
                [json |-> "string", chars |-> v[key]]]

\* json.loads(text): per key the Python value of the JSON token.
JsonLoads(text) ==
    [key \in DOMAIN text |->
        CASE text[key].json = "true"   -> TRUE
          [] text[key].json = "false"  -> FALSE
          [] text[key].json = "number" -> text[key].repr
          [] text[key].json = "object" -> text[key].members
          [] text[key].json = "string" -> text[key].chars]

\* value_serializer=lambda v: json.dumps(v).encode('utf-8'), line 78.
ValueSerializer(v) == [utf8 |-> JsonDumps(v)]

\* value_deserializer=lambda m: json.loads(m.decode('utf-8')), line 91.
ValueDeserializer(m) == JsonLoads(m.utf8)

\* _publish_message(topic, message), lines 300-321, on the topics: the
\* broker keeps the serialized value of an acknowledged record.
PublishMessage(tp, topic, message, closed, failures) ==
    IF SendAcked(closed, failures)
    THEN [tp EXCEPT ![topic] = Append(@, ValueSerializer(message))]
    ELSE tp

\* hincrby(name, key, 1).
HIncrBy(h, k) ==
    IF k \in DOMAIN h THEN [h EXCEPT ![k] = @ + 1] ELSE (k :> 1) @@ h

\* Variant of Incr that adds 2.
IncrTwice(v) == IF v = Nil THEN 2 ELSE v + 2

\* incr(name): a missing key counts as 0.
Incr(v) == IF v = Nil THEN 1 ELSE v + 1

\* ltrim(name, 0, n - 1): keep the n entries at the head of the list.
LTrim(list, n) == SubSeq(list, 1, Min(Len(list), n))

\* One successful store call on the store.
RedisApply(rd, o) ==
    CASE o.op = "setex" ->
            [rd EXCEPT !.alerts = (o.arg.id :> o.arg) @@ @]
      [] o.op = "lpush" ->
            [rd EXCEPT !.recent_alerts = <<o.arg>> \o @]
      [] o.op = "ltrim" ->
            [rd EXCEPT !.recent_alerts = LTrim(@, RecentAlertsMax)]
      [] o.op = "incr_total" ->
            [rd EXCEPT !.total_processed = Incr(@)]
      [] o.op = "incr_anomalies" ->
            [rd EXCEPT !.anomalies_detected = Incr(@)]
      [] o.op = "hincrby_histogram" ->
            [rd EXCEPT !.confidence_histogram = HIncrBy(@, o.arg)]
      [] o.op = "hincrby_usage" ->
            [rd EXCEPT !.model_usage = HIncrBy(@, o.arg)]

\* Variant of IntOrZero that passes the stored value through.
IntAsStored(v) == v

\* int(redis_client.get(key) or 0), lines 367-368.
IntOrZero(v) == IF v = Nil THEN 0 ELSE v

\* Lines 376-379: the rate as the fraction num/den; 0.0 is 0/1.
AnomalyRate(total, anomalies) ==
    IF total > 0 THEN [num |-> anomalies, den |-> total]
    ELSE [num |-> 0, den |-> 1]

\* ------------------------------------------------------------ event data
V(a, c) == [is_anomaly |-> a, confidence |-> c]

\* Records the broker delivers: "malformed" is a record whose parsing
\* raises (for example a timestamp that is not ISO-8601).
RecordKinds == {"wellformed", "malformed"}

\* What the trained backends answer on the data of a parsed message. The
\* data is opaque to the pipeline until batch_detect scores it, so the
\* answer is drawn when the batch is scored: a normal point, an anomalous
\* point, or a point no backend can score (all four raise, for example on
\* a feature vector of the wrong width).
PipelineOutputs ==
    { <<V(FALSE, 0), V(FALSE, 5), V(TRUE, 8), V(FALSE, 0)>>,
      <<V(TRUE, 10), V(TRUE, 8), V(TRUE, 10), V(FALSE, 5)>>,
      <<Raise, Raise, Raise, Raise>> }

\* --------------------------------------------------------------- state
VARIABLES
    is_running,       \* StreamProcessor.is_running
    message_queue,    \* StreamProcessor.message_queue (message ids), oldest first
    consumer_closed,  \* consumer.close() has been called
    producer_closed,  \* producer.close() has been called
    is_trained,       \* AnomalyDetector.is_trained
    start_pc,         \* start(): "idle" before the call, "called" after
    ingest_pc,        \* position of the thread in _consume_messages
    delivered,        \* number of records the broker has delivered
    cur,              \* the record / StreamMessage the Ingestor holds
    warnings,         \* "Message queue is full, dropping message" log lines
    parse_errors,     \* "Error processing message" log lines
    worker_pc,        \* position of processing_thread in _process_messages
    batch,            \* local list `batch` of _process_messages
    elapsed,          \* time.time() - last_batch_time, saturating
    waited,           \* the 1 s timeout of the pending get() has expired
    stop_pc,          \* position of the thread in stop()
    join_timer,       \* time spent in processing_thread.join, saturating
    handled,          \* calls of _handle_anomaly_result, in order
    offered,          \* history: ids that reached the full() test
    enqueued,         \* history: ids put into message_queue
    batched,          \* history: ids passed to _process_batch, in order
    first_age,        \* history: time since the first append to `batch`
    lastFlush,        \* history: the latest call of _process_batch
    det_call,         \* detector call frame: outputs, results, return value
    topics,           \* serialized records the broker acknowledged, per
                      \* topic, in order
    redis,            \* contents of the Redis store
    sends,            \* history: calls of _publish_message, in order
    last_send,        \* history: the latest _publish_message call of PublishSpec
    h_calls,          \* history: (id, result) of each _handle_anomaly_result
    h_ops,            \* calls the running _handle_anomaly_result still has to make
    store_faults,     \* store calls that have raised so far
    gm,               \* frame of the get_metrics call: position, locals, return
    max_retries,      \* StreamConfig.max_retries
    b_calls,          \* history: messages and backend answers of each
                      \* _process_batch call of BatchSpec
    committed,        \* offset committed for the consumer group
    config,           \* StreamConfig.batch_size and .batch_timeout
    restarts,         \* start() calls that followed a stop()
    leftover,         \* threads of earlier runs still in _process_messages
    w2_ops,           \* calls the _update_metrics of a second worker still
                      \* has to make
    models,           \* AnomalyDetector.models: TRUE where the entry is
                      \* not None
    thresholds,       \* keys of AnomalyDetector.thresholds
    disk,             \* the files of the model directory
    life,             \* frame of the running train, save_models or
                      \* load_models call
    disk_faults       \* writes to the model directory that have raised

vars == <<is_running, message_queue, consumer_closed, producer_closed,
          is_trained, start_pc, ingest_pc, delivered, cur, warnings,
          parse_errors, worker_pc, batch, elapsed, waited, stop_pc,
          join_timer, handled, offered, enqueued, batched, first_age,
          lastFlush, det_call, topics, redis, sends, last_send, h_calls,
          h_ops, store_faults, gm, max_retries, b_calls, committed, config,
          restarts, leftover, w2_ops, models, thresholds, disk, life,
          disk_faults>>

\* What _handle_anomaly_result acts on, and what the pipeline actions
\* never write: the frames and histories of the handler, get_metrics,
\* _publish_message and _process_batch specifications.
storeVars == <<topics, redis, sends, h_calls>>
\* The configuration, the restart bookkeeping and the second worker's
\* frame, written only by ConfigSpec, RestartSpec and WorkersSpec.
extVars == <<config, restarts, leftover, w2_ops>>

\* The model directory and the frame of the detector's train, save and
\* load calls, written only by LifecycleSpec.
lifeVars == <<thresholds, disk, life, disk_faults>>

hsVars == <<h_ops, store_faults, gm, max_retries, last_send, b_calls,
            extVars, lifeVars, models>>

detVars  == <<is_trained, det_call>>
pipeVars == <<is_running, message_queue, consumer_closed, producer_closed,
              start_pc, ingest_pc, delivered, cur, warnings,
              parse_errors, worker_pc, batch, elapsed, waited, stop_pc,
              join_timer, handled, offered, enqueued, batched, first_age,
              lastFlush, storeVars, hsVars, committed>>

\* Everything but the detector's is_trained, models and call frame.
detFrame ==
    <<is_running, message_queue, consumer_closed, producer_closed,
      start_pc, ingest_pc, delivered, cur, warnings, parse_errors, worker_pc,
      batch, elapsed, waited, stop_pc, join_timer, handled, offered, enqueued,
      batched, first_age, lastFlush, storeVars, h_ops, store_faults, gm,
      max_retries, last_send, b_calls, extVars, lifeVars, committed>>

NoMsg == [id |-> 0, kind |-> "none"]
NoCall == [kind |-> "none"]
NoSend == [topic |-> "none"]
GmIdle == [pc |-> "idle"]
LifeIdle == [op |-> "idle"]

\* StreamConfig defaults, lines 36-37, at the scale of the model.
DefaultConfig == [batch_size |-> BatchSize, batch_timeout |-> BatchTimeout]

\* self.models after _initialize_models, lines 61-78: the isolation forest
\* and the one-class SVM are constructed, 'autoencoder' and 'statistical'
\* are None.
InitialModels ==
    [n \in ScalerKeys |-> n \in {"isolation_forest", "one_class_svm"}]

\* self.models after train(): lines 163 and 168 have filled the two None
\* entries.
TrainedModels == [n \in ScalerKeys |-> TRUE]

\* A model directory without files.
EmptyDisk ==
    [models     |-> [n \in ScalerKeys |-> "absent"],
     scalers    |-> FALSE,
     thresholds |-> [saved |-> FALSE, keys |-> {}]]

\* Broker topics and store are empty, nothing has been handled, nobody
\* is in get_metrics, no offset is committed.
SideInit ==
    /\ topics = EmptyTopics
    /\ redis = EmptyRedis
    /\ sends = <<>>
    /\ last_send = NoSend
    /\ h_calls = <<>>
    /\ h_ops = <<>>
    /\ store_faults = 0
    /\ gm = GmIdle
    /\ b_calls = <<>>
    /\ committed = 0
    /\ config = DefaultConfig
    /\ restarts = 0
    /\ leftover = 0
    /\ w2_ops = <<>>
    /\ models = IF is_trained THEN TrainedModels ELSE InitialModels
    /\ thresholds = ScalerKeys
    /\ disk = EmptyDisk
    /\ life = LifeIdle
    /\ disk_faults = 0

\* State after StreamProcessor.__init__ (lines 55-69) on a detector that
\* main.py has trained (train_models, main.py:72-93).
Init ==
    /\ is_running = FALSE
    /\ message_queue = <<>>
    /\ consumer_closed = FALSE
    /\ producer_closed = FALSE
    /\ is_trained = TRUE
    /\ start_pc = "idle"
    /\ ingest_pc = "idle"
    /\ delivered = 0
    /\ cur = NoMsg
    /\ warnings = 0
    /\ parse_errors = 0
    /\ worker_pc = "idle"
    /\ batch = <<>>
    /\ elapsed = 0
    /\ waited = FALSE
    /\ stop_pc = "idle"
    /\ join_timer = 0
    /\ handled = <<>>
    /\ offered = <<>>
    /\ enqueued = <<>>
    /\ batched = <<>>
    /\ first_age = 0
    /\ lastFlush = [n |-> 0, age |-> 0, reason |-> "none"]
    /\ det_call = NoCall
    /\ SideInit
    /\ max_retries = DefaultMaxRetries


\* ------------------------------------------------------------ lifecycle
\* start(), lines 109-124: returns at once when already running; otherwise
\* sets the flag, starts processing_thread (whose first statements set
\* batch = [] and last_batch_time = now) and enters _consume_messages in
\* the calling thread. A start() that follows a stop() is StartAgain, in
\* RestartSpec.
Start ==
    /\ start_pc = "idle" \/ is_running
    /\ start_pc' = "called"
    /\ IF is_running
       THEN UNCHANGED <<is_running, worker_pc, batch, elapsed, ingest_pc>>
       ELSE /\ is_running' = TRUE
            /\ worker_pc' = "loop"
            /\ batch' = <<>>
            /\ elapsed' = 0
            /\ ingest_pc' = "next"
    /\ UNCHANGED <<message_queue, consumer_closed, producer_closed, is_trained,
                   delivered, cur, warnings, parse_errors, waited, stop_pc,
                   join_timer, handled, offered, enqueued, batched, first_age,
                   lastFlush, det_call,
                   storeVars, hsVars, committed>>

\* stop(), lines 131-134: clear the flag, then join the worker if there is one.
StopRequest ==
    /\ start_pc = "called"
    /\ stop_pc = "idle"
    /\ is_running' = FALSE
    /\ join_timer' = 0
    /\ stop_pc' = IF worker_pc # "idle" THEN "join" ELSE "close_consumer"
    /\ UNCHANGED <<message_queue, consumer_closed, producer_closed, is_trained,
                   start_pc, ingest_pc, delivered, cur, warnings, parse_errors,
                   worker_pc, batch, elapsed, waited, handled, offered,
                   enqueued, batched, first_age, lastFlush, det_call,
                   storeVars, hsVars, committed>>

\* Variant of JoinReturns for a stop() that does not join the worker.
JoinReturnsAtOnce(wpc, timer) == TRUE

\* processing_thread.join(timeout=5), line 134: returns when the worker
\* has terminated or when the timeout has expired.
JoinReturns(wpc, timer) == wpc = "done" \/ timer >= JoinTimeout

StopJoin ==
    /\ stop_pc = "join"
    /\ JoinReturns(worker_pc, join_timer)
    /\ stop_pc' = "close_consumer"
    /\ UNCHANGED <<is_running, message_queue, consumer_closed, producer_closed,
                   is_trained, start_pc, ingest_pc, delivered, cur, warnings,
                   parse_errors, worker_pc, batch, elapsed, waited, join_timer,
                   handled, offered, enqueued, batched, first_age, lastFlush,
                   det_call,
                   storeVars, hsVars, committed>>

\* The consumer's position: the offset after the last record its iterator
\* has yielded. With enable_auto_commit=True (line 90) the client commits
\* the position from inside the iterator when the commit interval has
\* passed, and once more in close().
ConsumerPosition == delivered

\* self.consumer.close(), lines 136-137.
StopCloseConsumer ==
    /\ stop_pc = "close_consumer"
    /\ consumer_closed' = TRUE
    /\ committed' = ConsumerPosition
    /\ stop_pc' = "close_producer"
    /\ UNCHANGED <<is_running, message_queue, producer_closed, is_trained,
                   start_pc, ingest_pc, delivered, cur, warnings, parse_errors,
                   worker_pc, batch, elapsed, waited, join_timer, handled,
                   offered, enqueued, batched, first_age, lastFlush, det_call,
                   storeVars, hsVars>>

\* self.producer.close() and return, lines 139-142.
StopCloseProducer ==
    /\ stop_pc = "close_producer"
    /\ producer_closed' = TRUE
    /\ stop_pc' = "done"
    /\ UNCHANGED <<is_running, message_queue, consumer_closed, is_trained,
                   start_pc, ingest_pc, delivered, cur, warnings, parse_errors,
                   worker_pc, batch, elapsed, waited, join_timer, handled,
                   offered, enqueued, batched, first_age, lastFlush, det_call,
                   storeVars, hsVars, committed>>

\* ------------------------------------------------------------- ingestor
\* `for message in self.consumer`, line 151: the iterator blocks until the
\* broker delivers the next record.
IngestNext ==
    /\ ingest_pc = "next"
    /\ ~consumer_closed
    /\ delivered < MaxEvents
    /\ \E k \in RecordKinds :
          cur' = [id |-> delivered + 1, kind |-> k]
    /\ delivered' = delivered + 1
    /\ ingest_pc' = "check"
    /\ UNCHANGED <<is_running, message_queue, consumer_closed, producer_closed,
                   is_trained, start_pc, warnings, parse_errors, worker_pc,
                   batch, elapsed, waited, stop_pc, join_timer, handled,
                   offered, enqueued, batched, first_age, lastFlush, det_call,
                   storeVars, hsVars, committed>>

\* The broker delivers a "bare" record: a JSON object with neither an
\* 'id' nor a 'timestamp' key.
IngestNextBare ==
    /\ ingest_pc = "next"
    /\ ~consumer_closed
    /\ delivered < MaxEvents
    /\ cur' = [id |-> delivered + 1, kind |-> "bare"]
    /\ delivered' = delivered + 1
    /\ ingest_pc' = "check"
    /\ UNCHANGED <<is_running, message_queue, consumer_closed, producer_closed,
                   is_trained, start_pc, warnings, parse_errors, worker_pc,
                   batch, elapsed, waited, stop_pc, join_timer, handled,
                   offered, enqueued, batched, first_age, lastFlush, det_call,
                   storeVars, hsVars, committed>>

\* The iterator of a consumer that stop() has closed from another thread
\* ends the loop (StopIteration, or an exception caught at line 170). The
\* client library does not define when, or whether, a thread already
\* blocked in the iterator notices the close.
IngestClosed ==
    /\ ingest_pc = "next"
    /\ consumer_closed
    /\ ingest_pc' = "done"
    /\ UNCHANGED <<is_running, message_queue, consumer_closed, producer_closed,
                   is_trained, start_pc, delivered, cur, warnings, parse_errors,
                   worker_pc, batch, elapsed, waited, stop_pc, join_timer,
                   handled, offered, enqueued, batched, first_age, lastFlush,
                   det_call,
                   storeVars, hsVars, committed>>

\* The iterator raises instead of yielding: a broker error, or a record
\* whose bytes value_deserializer (json.loads, line 91) cannot decode. The
\* `for` statement is inside the outer try only, so the except clause at
\* line 170 is entered and _consume_messages returns.
IngestIteratorRaises ==
    /\ ingest_pc = "next"
    /\ ~consumer_closed
    /\ ingest_pc' = "done"
    /\ UNCHANGED <<is_running, message_queue, consumer_closed, producer_closed,
                   is_trained, start_pc, delivered, cur, warnings, parse_errors,
                   worker_pc, batch, elapsed, waited, stop_pc, join_timer,
                   handled, offered, enqueued, batched, first_age, lastFlush,
                   det_call, storeVars, hsVars, committed>>

\* The auto-commit of the client, made from inside the iterator: the
\* position is committed, whatever became of the records yielded so far.
AutoCommit ==
    /\ ingest_pc = "next"
    /\ ~consumer_closed
    /\ committed < ConsumerPosition
    /\ committed' = ConsumerPosition
    /\ UNCHANGED <<is_running, message_queue, consumer_closed, producer_closed,
                   is_trained, start_pc, ingest_pc, delivered, cur, warnings,
                   parse_errors, worker_pc, batch, elapsed, waited, stop_pc,
                   join_timer, handled, offered, enqueued, batched, first_age,
                   lastFlush, det_call, storeVars, hsVars>>

\* Variant of ParseRaises that also rejects a record without id and
\* timestamp.
ParseRaisesOnMissingKey(rec) == rec.kind \in {"malformed", "bare"}

\* _parse_message, lines 175-186, raises on a malformed record; for a key
\* that is missing data.get returns its default (lines 181-182).
ParseRaises(rec) == rec.kind = "malformed"

\* Lines 152-157 and 165-168: leave the loop when the flag is clear; else
\* parse the record, and log and skip it when parsing raises.
IngestCheck ==
    /\ ingest_pc = "check"
    /\ IF ~is_running
       THEN /\ ingest_pc' = "done"
            /\ cur' = NoMsg
            /\ UNCHANGED <<parse_errors, offered>>
       ELSE IF ParseRaises(cur)
            THEN /\ parse_errors' = parse_errors + 1
                 /\ cur' = NoMsg
                 /\ ingest_pc' = "next"
                 /\ UNCHANGED offered
            ELSE /\ ingest_pc' = "full"
                 /\ offered' = Append(offered, cur.id)
                 /\ UNCHANGED <<parse_errors, cur>>
    /\ UNCHANGED <<is_running, message_queue, consumer_closed, producer_closed,
                   is_trained, start_pc, delivered, warnings, worker_pc, batch,
                   elapsed, waited, stop_pc, join_timer, handled, enqueued,
                   batched, first_age, lastFlush, det_call,
                   storeVars, hsVars, committed>>

\* Variant of QueueFull that is off by one (> for >=).
QueueFullOffByOne(q) == Len(q) > QueueMaxsize

\* Queue.full(), line 160.
QueueFull(q) == Len(q) >= QueueMaxsize

\* Line 160-163: test full(); when full, log the warning and drop.
IngestFull ==
    /\ ingest_pc = "full"
    /\ IF ~QueueFull(message_queue)
       THEN /\ ingest_pc' = "put"
            /\ UNCHANGED <<warnings, cur>>
       ELSE /\ warnings' = warnings + 1
            /\ cur' = NoMsg
            /\ ingest_pc' = "next"
    /\ UNCHANGED <<is_running, message_queue, consumer_closed, producer_closed,
                   is_trained, start_pc, delivered, parse_errors, worker_pc,
                   batch, elapsed, waited, stop_pc, join_timer, handled,
                   offered, enqueued, batched, first_age, lastFlush, det_call,
                   storeVars, hsVars, committed>>

\* self.message_queue.put(stream_message), line 161: a blocking put, which
\* proceeds only while the queue has a free slot.
IngestPut ==
    /\ ingest_pc = "put"
    /\ Len(message_queue) < QueueMaxsize
    /\ message_queue' = Append(message_queue, cur.id)
    /\ enqueued' = Append(enqueued, cur.id)
    /\ cur' = NoMsg
    /\ ingest_pc' = "next"
    /\ UNCHANGED <<is_running, consumer_closed, producer_closed, is_trained,
                   start_pc, delivered, warnings, parse_errors, worker_pc,
                   batch, elapsed, waited, stop_pc, join_timer, handled,
                   offered, batched, first_age, lastFlush, det_call,
                   storeVars, hsVars, committed>>


\* --------------------------------------------------------------- worker
\* The broker topics and the store as one value, with the histories of
\* what was sent and handled.
World ==
    [topics |-> topics, redis |-> redis, sends |-> sends,
     h_calls |-> h_calls, handled |-> handled]

\* One call of _handle_anomaly_result's list, made while the producer is
\* `plan.closed`, the broker fails the first `plan.failures` transmissions
\* and the store answers (`plan.store_ok`) or raises. For a send the block
\* of the call names the topic.
ApplyOp(w, o, plan) ==
    IF o.op = "send"
    THEN [w EXCEPT
            !.topics = PublishMessage(@, o.block, o.arg, plan.closed,
                                      plan.failures),
            !.sends = Append(@, [topic |-> o.block, id |-> o.arg.id,
                                 acked |-> SendAcked(plan.closed,
                                                     plan.failures)])]
    ELSE IF plan.store_ok THEN [w EXCEPT !.redis = RedisApply(@, o)]
    ELSE w

\* A store call raises when the store does not answer; the exception of a
\* send never leaves _publish_message.
OpRaises(o, plan) == o.op # "send" /\ ~plan.store_ok

\* All the calls of `ops` in order, under one plan.
RECURSIVE RunOps(_, _, _)
RunOps(w, ops, plan) ==
    IF ops = <<>> THEN w
    ELSE RunOps(ApplyOp(w, Head(ops), plan),
                Remaining(ops, OpRaises(Head(ops), plan)), plan)

\* _handle_anomaly_result(message, result) from entry to return.
HandleOne(w, id, r, plan) ==
    LET w1 == RunOps(w, HandleAnomalyResult(id, r), plan) IN
    [w1 EXCEPT
        !.h_calls = Append(@, [id |-> id, result |-> r]),
        !.handled = Append(@, [id         |-> id,
                               is_anomaly |-> r.is_anomaly,
                               published  |-> SendAcked(plan.closed,
                                                        plan.failures)])]

\* Variant of HandleResults that handles the last pair first.
RECURSIVE HandleResultsLastFirst(_, _, _, _)
HandleResultsLastFirst(w, msgs, results, plan) ==
    IF msgs = <<>> \/ results = <<>> THEN w
    ELSE HandleOne(HandleResultsLastFirst(w, Tail(msgs), Tail(results), plan),
                   Head(msgs), Head(results), plan)

\* _handle_anomaly_result for each (message, result) pair of the zip at
\* lines 250-251, in order.
RECURSIVE HandleResults(_, _, _, _)
HandleResults(w, msgs, results, plan) ==
    IF msgs = <<>> \/ results = <<>> THEN w
    ELSE HandleResults(HandleOne(w, Head(msgs), Head(results), plan),
                       Tail(msgs), Tail(results), plan)

\* _process_batch, lines 227-256: the world after one batch. An exception
\* of batch_detect is caught at line 253 and nothing is handled.
ProcessBatch(w, msgs, outs, trained, plan) ==
    LET r == BatchDetect(trained, outs) IN
    IF r.ok THEN HandleResults(w, msgs, r.results, plan) ELSE w

\* Conditions under which the Worker of the pipeline handles a batch: a
\* send fails only on a closed producer and the store answers. Failing
\* transmissions and a store that raises are explored call by call in
\* HandleSpec.
BatchPlans ==
    {[closed |-> producer_closed, failures |-> 0, store_ok |-> TRUE]}

\* The variables _process_batch writes take the values of world `w`.
SetWorld(w) ==
    /\ topics' = w.topics
    /\ redis' = w.redis
    /\ sends' = w.sends
    /\ h_calls' = w.h_calls
    /\ handled' = w.handled

\* Line 196: the loop test.
WorkerLoop ==
    /\ worker_pc = "loop"
    /\ IF is_running
       THEN /\ worker_pc' = "get"
            /\ waited' = FALSE
       ELSE /\ worker_pc' = "final"
            /\ UNCHANGED waited
    /\ UNCHANGED <<is_running, message_queue, consumer_closed, producer_closed,
                   is_trained, start_pc, ingest_pc, delivered, cur, warnings,
                   parse_errors, batch, elapsed, stop_pc, join_timer, handled,
                   offered, enqueued, batched, first_age, lastFlush, det_call,
                   storeVars, hsVars, committed>>

\* Lines 200-201: get() returns the oldest message, which is appended.
WorkerGet ==
    /\ worker_pc = "get"
    /\ message_queue # <<>>
    /\ batch' = Append(batch, Head(message_queue))
    /\ message_queue' = Tail(message_queue)
    /\ first_age' = IF batch = <<>> THEN 0 ELSE first_age
    /\ worker_pc' = "flush_check"
    /\ UNCHANGED <<is_running, consumer_closed, producer_closed, is_trained,
                   start_pc, ingest_pc, delivered, cur, warnings, parse_errors,
                   elapsed, waited, stop_pc, join_timer, handled, offered,
                   enqueued, batched, lastFlush, det_call,
                   storeVars, hsVars, committed>>

\* Variant of FlushOnTimeout in which the timeout branch only continues.
FlushOnTimeoutNever(b, el) == FALSE

\* Line 204: the flush test of the timeout branch.
FlushOnTimeout(b, el) == b # <<>> /\ el >= BatchTimeout

\* Variant of FlushAfterGet with > for >= in the size test.
FlushAfterGetLate(b, el) == Len(b) > BatchSize \/ el >= BatchTimeout

\* Lines 211-212: the flush test after an append.
FlushAfterGet(b, el) == Len(b) >= BatchSize \/ el >= BatchTimeout

\* _process_batch(batch); batch = []; last_batch_time = time.time().
Flush(reason) ==
    /\ \E outs \in [1..Len(batch) -> PipelineOutputs], plan \in BatchPlans :
          SetWorld(ProcessBatch(World, batch, outs, is_trained, plan))
    /\ batched' = batched \o batch
    /\ lastFlush' = [n |-> Len(batch), age |-> first_age, reason |-> reason]
    /\ batch' = <<>>
    /\ elapsed' = 0
    /\ first_age' = 0

\* Lines 202-208: get() raised Empty after its timeout with the queue empty.
WorkerGetTimeout ==
    /\ worker_pc = "get"
    /\ message_queue = <<>>
    /\ waited
    /\ IF FlushOnTimeout(batch, elapsed)
       THEN Flush("timeout")
       ELSE UNCHANGED <<handled, batched, lastFlush, batch, elapsed, first_age,
                        storeVars>>
    /\ worker_pc' = "loop"
    /\ UNCHANGED <<is_running, message_queue, consumer_closed, producer_closed,
                   is_trained, start_pc, ingest_pc, delivered, cur, warnings,
                   parse_errors, waited, stop_pc, join_timer, offered,
                   enqueued, det_call, hsVars, committed>>

\* Lines 211-215.
WorkerFlushCheck ==
    /\ worker_pc = "flush_check"
    /\ IF FlushAfterGet(batch, elapsed)
       THEN Flush(IF Len(batch) >= BatchSize THEN "size" ELSE "time")
       ELSE UNCHANGED <<handled, batched, lastFlush, batch, elapsed, first_age,
                        storeVars>>
    /\ worker_pc' = "loop"
    /\ UNCHANGED <<is_running, message_queue, consumer_closed, producer_closed,
                   is_trained, start_pc, ingest_pc, delivered, cur, warnings,
                   parse_errors, waited, stop_pc, join_timer, offered,
                   enqueued, det_call, hsVars, committed>>

\* Lines 221-225: after the loop, process what is left in `batch` and end.
WorkerFinal ==
    /\ worker_pc = "final"
    /\ IF batch # <<>>
       THEN /\ \E outs \in [1..Len(batch) -> PipelineOutputs],
                    plan \in BatchPlans :
                  SetWorld(ProcessBatch(World, batch, outs, is_trained, plan))
            /\ batched' = batched \o batch
            /\ lastFlush' = [n |-> Len(batch), age |-> first_age, reason |-> "final"]
       ELSE UNCHANGED <<handled, batched, lastFlush, storeVars>>
    /\ worker_pc' = "done"
    /\ UNCHANGED <<is_running, message_queue, consumer_closed, producer_closed,
                   is_trained, start_pc, ingest_pc, delivered, cur, warnings,
                   parse_errors, batch, elapsed, waited, stop_pc, join_timer,
                   offered, enqueued, first_age, det_call, hsVars, committed>>

\* ----------------------------------------------------------------- time
WorkerAlive == worker_pc \notin {"idle", "done"}

\* One tick of the clock read by time.time(), Queue.get and Thread.join.
Tick ==
    /\ elapsed' = IF WorkerAlive THEN Min(elapsed + 1, BatchTimeout) ELSE elapsed
    /\ first_age' = IF WorkerAlive /\ batch # <<>>
                    THEN Min(first_age + 1, BatchTimeout) ELSE first_age
    /\ waited' = IF worker_pc = "get" THEN TRUE ELSE waited
    /\ join_timer' = IF stop_pc = "join"
                     THEN Min(join_timer + 1, JoinTimeout) ELSE join_timer
    /\ <<elapsed', first_age', waited', join_timer'>>
          # <<elapsed, first_age, waited, join_timer>>
    /\ UNCHANGED <<is_running, message_queue, consumer_closed, producer_closed,
                   is_trained, start_pc, ingest_pc, delivered, cur, warnings,
                   parse_errors, worker_pc, batch, stop_pc, handled, offered,
                   enqueued, batched, lastFlush, det_call,
                   storeVars, hsVars, committed>>

\* ------------------------------------------------------- specifications
Next ==
    \/ Start
    \/ StopRequest
    \/ StopJoin
    \/ StopCloseConsumer
    \/ StopCloseProducer
    \/ IngestNext
    \/ IngestClosed
    \/ IngestIteratorRaises
    \/ IngestCheck
    \/ IngestFull
    \/ IngestPut
    \/ WorkerLoop
    \/ WorkerGet
    \/ WorkerGetTimeout
    \/ WorkerFlushCheck
    \/ WorkerFinal
    \/ Tick

Spec == Init /\ [][Next]_vars

\* Every thread keeps running and the clock keeps advancing. Neither the
\* callers of start() and stop() nor the broker (IngestNext, IngestClosed)
\* are under any obligation to act.
WorkerStep ==
    WorkerLoop \/ WorkerGet \/ WorkerGetTimeout \/ WorkerFlushCheck \/ WorkerFinal

IngestStep == IngestCheck \/ IngestFull \/ IngestPut

StopStep == StopJoin \/ StopCloseConsumer \/ StopCloseProducer

Fairness ==
    /\ WF_vars(WorkerStep)
    /\ WF_vars(IngestStep)
    /\ WF_vars(StopStep)
    /\ WF_vars(Tick)

FairSpec == Spec /\ Fairness

\* The pipeline together with the client's periodic auto-commit, which
\* writes `committed` and nothing else.
CommitSpec == Init /\ [][Next \/ AutoCommit]_vars

\* The pipeline on a stream that also has records without id and
\* timestamp.
IngestSpec == Init /\ [][Next \/ IngestNextBare]_vars


\* -------------------------------------------- handler specification
\* A StreamProcessor whose _handle_anomaly_result is called MaxCalls
\* times, one broker or store call per step.
HandleInit ==
    /\ is_running = FALSE
    /\ message_queue = <<>>
    /\ consumer_closed = FALSE
    /\ producer_closed = FALSE
    /\ is_trained = TRUE
    /\ start_pc = "idle"
    /\ ingest_pc = "idle"
    /\ delivered = 0
    /\ cur = NoMsg
    /\ warnings = 0
    /\ parse_errors = 0
    /\ worker_pc = "idle"
    /\ batch = <<>>
    /\ elapsed = 0
    /\ waited = FALSE
    /\ stop_pc = "idle"
    /\ join_timer = 0
    /\ handled = <<>>
    /\ offered = <<>>
    /\ enqueued = <<>>
    /\ batched = <<>>
    /\ first_age = 0
    /\ lastFlush = [n |-> 0, age |-> 0, reason |-> "none"]
    /\ det_call = NoCall
    /\ SideInit
    /\ max_retries = DefaultMaxRetries

\* Everything but the broker topics, the store and the two call frames.
handleFrame ==
    <<is_running, message_queue, consumer_closed, producer_closed, is_trained,
      start_pc, ingest_pc, delivered, cur, warnings, parse_errors, worker_pc,
      batch, elapsed, waited, stop_pc, join_timer, handled, offered, enqueued,
      batched, first_age, lastFlush, det_call, max_retries, committed,
      last_send, b_calls, extVars, lifeVars, models>>

\* Backend answers behind the results handled: anomalies at mean
\* confidence 0.6, exactly 0.8 and 0.85, and a normal point at 1.0.
HandlerOutputs ==
    {<<V(TRUE, 5), V(TRUE, 5), V(TRUE, 8), Raise>>,
     <<V(TRUE, 8), V(TRUE, 8), V(TRUE, 8), V(TRUE, 8)>>,
     <<V(TRUE, 8), V(TRUE, 8), V(TRUE, 8), V(TRUE, 10)>>,
     <<V(FALSE, 10), V(FALSE, 10), V(TRUE, 10), V(FALSE, 10)>>}

\* Entry of _handle_anomaly_result(message, result): the calls it is going
\* to make.
HandleCall ==
    /\ h_ops = <<>>
    /\ Len(h_calls) < MaxCalls
    /\ \E outs \in HandlerOutputs :
          LET r  == EnsembleDetection(outs)
              id == Len(h_calls) + 1
          IN /\ h_ops' = HandleAnomalyResult(id, r)
             /\ h_calls' = Append(h_calls, [id |-> id, result |-> r])
    /\ UNCHANGED <<topics, redis, sends, store_faults, gm>>
    /\ UNCHANGED handleFrame

\* The next call is a _publish_message: the broker fails the first
\* `failures` transmissions.
HandleSend ==
    /\ h_ops # <<>>
    /\ Head(h_ops).op = "send"
    /\ \E failures \in 0..MaxFailures :
          LET w == ApplyOp(World, Head(h_ops),
                           [closed |-> producer_closed, failures |-> failures,
                            store_ok |-> TRUE])
          IN /\ topics' = w.topics
             /\ sends' = w.sends
    /\ h_ops' = Remaining(h_ops, FALSE)
    /\ UNCHANGED <<redis, h_calls, store_faults, gm>>
    /\ UNCHANGED handleFrame

\* The next call is a store call and the store answers.
HandleStoreCall ==
    /\ h_ops # <<>>
    /\ Head(h_ops).op # "send"
    /\ redis' = RedisApply(redis, Head(h_ops))
    /\ h_ops' = Remaining(h_ops, FALSE)
    /\ UNCHANGED <<topics, sends, h_calls, store_faults, gm>>
    /\ UNCHANGED handleFrame

\* The next call is a store call and it raises.
HandleStoreRaises ==
    /\ h_ops # <<>>
    /\ Head(h_ops).op # "send"
    /\ store_faults < MaxStoreFaults
    /\ store_faults' = store_faults + 1
    /\ h_ops' = Remaining(h_ops, TRUE)
    /\ UNCHANGED <<topics, redis, sends, h_calls, gm>>
    /\ UNCHANGED handleFrame

HandleNext ==
    \/ HandleCall
    \/ HandleSend
    \/ HandleStoreCall
    \/ HandleStoreRaises

HandleSpec == HandleInit /\ [][HandleNext]_vars

\* -------------------------------------------- metrics specification
\* The Worker's calls of _update_metrics, one store call per step, while
\* another thread calls get_metrics, one store read per step.
\* Entry of _update_metrics(result), line 341.
UpdateMetricsCall ==
    /\ h_ops = <<>>
    /\ Len(h_calls) < MaxCalls
    /\ \E outs \in HandlerOutputs :
          LET r  == EnsembleDetection(outs)
              id == Len(h_calls) + 1
          IN /\ h_ops' = UpdateMetricsOps(r)
             /\ h_calls' = Append(h_calls, [id |-> id, result |-> r])
    /\ UNCHANGED <<topics, redis, sends, store_faults, gm>>
    /\ UNCHANGED handleFrame

\* get_metrics() is entered, line 362.
GmCall ==
    /\ gm.pc = "idle"
    /\ gm' = [pc |-> "total"]
    /\ UNCHANGED <<topics, redis, sends, h_calls, h_ops, store_faults>>
    /\ UNCHANGED handleFrame

\* Line 367: get('metrics:total_processed').
GmReadTotal ==
    /\ gm.pc = "total"
    /\ gm' = [pc |-> "anomalies", total |-> IntOrZero(redis.total_processed)]
    /\ UNCHANGED <<topics, redis, sends, h_calls, h_ops, store_faults>>
    /\ UNCHANGED handleFrame

\* Line 368: get('metrics:anomalies_detected').
GmReadAnomalies ==
    /\ gm.pc = "anomalies"
    /\ gm' = [pc        |-> "hashes",
              total     |-> gm.total,
              anomalies |-> IntOrZero(redis.anomalies_detected)]
    /\ UNCHANGED <<topics, redis, sends, h_calls, h_ops, store_faults>>
    /\ UNCHANGED handleFrame

\* Lines 369-381: the two hgetall, qsize(), is_running, the rate, return.
GmFinish ==
    /\ gm.pc = "hashes"
    /\ gm' = [pc  |-> "return",
              ret |-> [total_processed      |-> gm.total,
                       anomalies_detected   |-> gm.anomalies,
                       confidence_histogram |-> redis.confidence_histogram,
                       model_usage          |-> redis.model_usage,
                       queue_size           |-> Len(message_queue),
                       is_running           |-> is_running,
                       anomaly_rate         |-> AnomalyRate(gm.total,
                                                            gm.anomalies)]]
    /\ UNCHANGED <<topics, redis, sends, h_calls, h_ops, store_faults>>
    /\ UNCHANGED handleFrame

\* A store read of get_metrics raises: lines 383-385 return {}.
GmStoreRaises ==
    /\ gm.pc \in {"total", "anomalies", "hashes"}
    /\ gm' = [pc |-> "return", ret |-> EmptyDict]
    /\ UNCHANGED <<topics, redis, sends, h_calls, h_ops, store_faults>>
    /\ UNCHANGED handleFrame

\* get_metrics has returned; its frame is gone.
GmReturn ==
    /\ gm.pc = "return"
    /\ gm' = GmIdle
    /\ UNCHANGED <<topics, redis, sends, h_calls, h_ops, store_faults>>
    /\ UNCHANGED handleFrame

MetricsNext ==
    \/ UpdateMetricsCall
    \/ HandleStoreCall
    \/ HandleStoreRaises
    \/ GmCall
    \/ GmReadTotal
    \/ GmReadAnomalies
    \/ GmFinish
    \/ GmStoreRaises
    \/ GmReturn

MetricsSpec == HandleInit /\ [][MetricsNext]_vars

\* -------------------------------------------- publish specification
\* _publish_message called on its own, under either value of
\* config.max_retries, with the broker failing some transmissions.
PublishInit ==
    /\ is_running = FALSE
    /\ message_queue = <<>>
    /\ consumer_closed = FALSE
    /\ producer_closed = FALSE
    /\ is_trained = TRUE
    /\ start_pc = "idle"
    /\ ingest_pc = "idle"
    /\ delivered = 0
    /\ cur = NoMsg
    /\ warnings = 0
    /\ parse_errors = 0
    /\ worker_pc = "idle"
    /\ batch = <<>>
    /\ elapsed = 0
    /\ waited = FALSE
    /\ stop_pc = "idle"
    /\ join_timer = 0
    /\ handled = <<>>
    /\ offered = <<>>
    /\ enqueued = <<>>
    /\ batched = <<>>
    /\ first_age = 0
    /\ lastFlush = [n |-> 0, age |-> 0, reason |-> "none"]
    /\ det_call = NoCall
    /\ SideInit
    /\ max_retries \in RetryConfigs

\* _publish_message(topic, message), lines 300-321: the call returns
\* normally on every path; last_send keeps how the send went.
Publish ==
    /\ Len(sends) < MaxCalls
    /\ \E topic \in {"output", "alert"}, outs \in HandlerOutputs,
          failures \in 0..MaxFailures :
          LET r   == EnsembleDetection(outs)
              id  == Len(sends) + 1
              msg == IF topic = "output" THEN OutputMessage(id, r)
                     ELSE AlertMessage(id, r)
          IN /\ topics' = PublishMessage(topics, topic, msg, producer_closed,
                                         failures)
             /\ sends' = Append(sends,
                                [topic |-> topic, id |-> id,
                                 acked |-> SendAcked(producer_closed, failures)])
             /\ last_send' = [topic    |-> topic,
                              id       |-> id,
                              failures |-> failures,
                              attempts |-> SendAttempts(producer_closed,
                                                        failures),
                              acked    |-> SendAcked(producer_closed, failures),
                              raised   |-> FALSE]
    /\ UNCHANGED <<is_running, message_queue, consumer_closed, producer_closed,
                   is_trained, start_pc, ingest_pc, delivered, cur, warnings,
                   parse_errors, worker_pc, batch, elapsed, waited, stop_pc,
                   join_timer, handled, offered, enqueued, batched, first_age,
                   lastFlush, det_call, redis, h_calls, h_ops, store_faults,
                   gm, max_retries, b_calls, committed, extVars, lifeVars,
                   models>>

\* self.producer.close(), as stop() does at line 140.
PublishClose ==
    /\ ~producer_closed
    /\ producer_closed' = TRUE
    /\ UNCHANGED <<is_running, message_queue, consumer_closed,
                   is_trained, start_pc, ingest_pc, delivered, cur, warnings,
                   parse_errors, worker_pc, batch, elapsed, waited, stop_pc,
                   join_timer, handled, offered, enqueued, batched, first_age,
                   lastFlush, det_call, storeVars, hsVars, committed>>

PublishNext == Publish \/ PublishClose

PublishSpec == PublishInit /\ [][PublishNext]_vars

\* ---------------------------------------------- batch specification
\* The store answers every call of a batch, or raises on every one.
BatchFaultPlans ==
    {[closed |-> FALSE, failures |-> 0, store_ok |-> ok] : ok \in BOOLEAN}

\* _process_batch(messages), lines 227-256, on the next n messages of the
\* stream, from entry to return.
BatchCall ==
    /\ Len(b_calls) < MaxCalls
    /\ \E n \in 1..BatchSize, plan \in BatchFaultPlans :
          \E outs \in [1..n -> PipelineOutputs] :
             LET msgs == [i \in 1..n |-> Len(batched) + i] IN
             /\ SetWorld(ProcessBatch(World, msgs, outs, is_trained, plan))
             /\ batched' = batched \o msgs
             /\ b_calls' = Append(b_calls, [msgs     |-> msgs,
                                            outs     |-> outs,
                                            store_ok |-> plan.store_ok])
    /\ UNCHANGED <<is_running, message_queue, consumer_closed, producer_closed,
                   is_trained, start_pc, ingest_pc, delivered, cur, warnings,
                   parse_errors, worker_pc, batch, elapsed, waited, stop_pc,
                   join_timer, offered, enqueued, first_age, lastFlush,
                   det_call, h_ops, store_faults, gm, max_retries, last_send,
                   committed, extVars, lifeVars, models>>

BatchNext == BatchCall

BatchSpec == HandleInit /\ [][BatchNext]_vars

\* ------------------------------------------- detector specification
\* State after AnomalyDetector.__init__ (lines 44-55): not trained.
DetInit ==
    /\ is_running = FALSE
    /\ message_queue = <<>>
    /\ consumer_closed = FALSE
    /\ producer_closed = FALSE
    /\ is_trained = FALSE
    /\ start_pc = "idle"
    /\ ingest_pc = "idle"
    /\ delivered = 0
    /\ cur = NoMsg
    /\ warnings = 0
    /\ parse_errors = 0
    /\ worker_pc = "idle"
    /\ batch = <<>>
    /\ elapsed = 0
    /\ waited = FALSE
    /\ stop_pc = "idle"
    /\ join_timer = 0
    /\ handled = <<>>
    /\ offered = <<>>
    /\ enqueued = <<>>
    /\ batched = <<>>
    /\ first_age = 0
    /\ lastFlush = [n |-> 0, age |-> 0, reason |-> "none"]
    /\ det_call = NoCall
    /\ SideInit
    /\ max_retries = DefaultMaxRetries

\* train(), lines 119-182, from entry to return without an exception:
\* the four models are in place when line 177 sets is_trained. The steps
\* of train, and load_models, are in LifecycleSpec.
DetTrain ==
    /\ is_trained' = TRUE
    /\ models' = TrainedModels
    /\ UNCHANGED det_call
    /\ UNCHANGED detFrame

\* Variant of DetDetect in which an evaluation that raises leaves the
\* detector untrained.
DetDetectForgets ==
    /\ det_call = NoCall
    /\ \E model_name \in ModelNames, outs \in BackendOutputs :
          /\ det_call' =
                [kind       |-> IF model_name = "ensemble" THEN "ensemble"
                                ELSE "single",
                 model_name |-> model_name,
                 trained    |-> is_trained,
                 outs       |-> outs,
                 invoked    |-> BackendsInvoked(is_trained, model_name),
                 results    |-> IF is_trained /\ model_name = "ensemble"
                                THEN CollectResults(outs, 1)
                                ELSE <<>>,
                 ret        |-> DetectAnomalyModel(is_trained, model_name,
                                                   outs)]
          /\ is_trained' =
                (is_trained
                 /\ ~IsError(DetectAnomalyModel(is_trained, model_name, outs)))
    /\ UNCHANGED pipeVars

\* One call detect_anomaly(data_point, model_name) on a data point for
\* which the backends answer `outs`. det_call keeps the frame of the call:
\* the backends' answers, the backends entered, the list `results` of
\* _ensemble_detection and the value returned or the error raised.
DetDetect ==
    /\ det_call = NoCall
    /\ \E model_name \in ModelNames, outs \in BackendOutputs :
          det_call' = [kind       |-> IF model_name = "ensemble" THEN "ensemble"
                                      ELSE "single",
                       model_name |-> model_name,
                       trained    |-> is_trained,
                       outs       |-> outs,
                       invoked    |-> BackendsInvoked(is_trained, model_name),
                       results    |-> IF is_trained /\ model_name = "ensemble"
                                      THEN CollectResults(outs, 1)
                                      ELSE <<>>,
                       ret        |-> DetectAnomalyModel(is_trained, model_name,
                                                         outs)]
    /\ UNCHANGED is_trained
    /\ UNCHANGED pipeVars

\* The call returns (or its exception reaches the caller); the frame is gone.
DetReturn ==
    /\ det_call # NoCall
    /\ det_call' = NoCall
    /\ UNCHANGED is_trained
    /\ UNCHANGED pipeVars

\* A second call detect_anomaly(data_point, model_name) with the data
\* point and the model name of the call in det_call, the backends
\* answering as before, on the detector as it is now: the frame keeps
\* is_trained as the second call found it and what the second call
\* returned.
DetDetectAgain ==
    /\ det_call # NoCall
    /\ "again" \notin DOMAIN det_call
    /\ det_call' =
          ("again" :> [trained |-> is_trained,
                       ret     |-> DetectAnomalyModel(is_trained,
                                                      det_call.model_name,
                                                      det_call.outs)])
          @@ det_call
    /\ UNCHANGED is_trained
    /\ UNCHANGED pipeVars

DetNext == DetTrain \/ DetDetect \/ DetDetectAgain \/ DetReturn

DetSpec == DetInit /\ [][DetNext]_vars

\* ------------------------------------------- two-worker specification
\* Two workers (two StreamProcessor processes on one Redis) run
\* _update_metrics concurrently, one store call per step. The store
\* executes each call atomically. A call that raises was either not
\* executed, or executed with its reply lost.
\* Everything the second worker's steps leave alone.
w2Frame ==
    <<is_running, message_queue, consumer_closed, producer_closed, is_trained,
      start_pc, ingest_pc, delivered, cur, warnings, parse_errors, worker_pc,
      batch, elapsed, waited, stop_pc, join_timer, handled, offered, enqueued,
      batched, first_age, lastFlush, det_call, max_retries, committed,
      last_send, b_calls, config, restarts, leftover, lifeVars, models,
      topics, sends, h_ops, gm>>

\* Entry of _update_metrics(result) in the second worker, line 341.
W2UpdateMetricsCall ==
    /\ w2_ops = <<>>
    /\ Len(h_calls) < MaxCalls
    /\ \E outs \in HandlerOutputs :
          LET r  == EnsembleDetection(outs)
              id == Len(h_calls) + 1
          IN /\ w2_ops' = UpdateMetricsOps(r)
             /\ h_calls' = Append(h_calls, [id |-> id, result |-> r])
    /\ UNCHANGED <<redis, store_faults>>
    /\ UNCHANGED w2Frame

\* The second worker's next store call, answered.
W2StoreCall ==
    /\ w2_ops # <<>>
    /\ redis' = RedisApply(redis, Head(w2_ops))
    /\ w2_ops' = Remaining(w2_ops, FALSE)
    /\ UNCHANGED <<h_calls, store_faults>>
    /\ UNCHANGED w2Frame

\* The second worker's next store call raises, executed or not.
W2StoreRaises ==
    /\ w2_ops # <<>>
    /\ store_faults < MaxStoreFaults
    /\ store_faults' = store_faults + 1
    /\ \E executed \in BOOLEAN :
          redis' = IF executed THEN RedisApply(redis, Head(w2_ops)) ELSE redis
    /\ w2_ops' = Remaining(w2_ops, TRUE)
    /\ UNCHANGED h_calls
    /\ UNCHANGED w2Frame

\* The first worker's next store call is executed and raises: the reply
\* was lost.
W1ReplyLost ==
    /\ h_ops # <<>>
    /\ Head(h_ops).op # "send"
    /\ store_faults < MaxStoreFaults
    /\ store_faults' = store_faults + 1
    /\ redis' = RedisApply(redis, Head(h_ops))
    /\ h_ops' = Remaining(h_ops, TRUE)
    /\ UNCHANGED <<topics, sends, h_calls, gm>>
    /\ UNCHANGED handleFrame

WorkersNext ==
    \/ UpdateMetricsCall
    \/ HandleStoreCall
    \/ HandleStoreRaises
    \/ W1ReplyLost
    \/ W2UpdateMetricsCall
    \/ W2StoreCall
    \/ W2StoreRaises

WorkersSpec == HandleInit /\ [][WorkersNext]_vars

\* ------------------------------------------ configuration specification
\* The pipeline constructed with any StreamConfig. The dataclass (lines
\* 28-39) has no __post_init__ and __init__ (lines 55-69) stores the
\* configuration as given; the queue is Queue(maxsize=1000) whatever
\* batch_size is.
\* Values of batch_size and batch_timeout a caller can pass: zero, the
\* values in between, and a batch_size above the queue capacity.
StreamConfigs ==
    [batch_size : 0..(QueueMaxsize + 1), batch_timeout : 0..BatchTimeout]

\* State after StreamProcessor.__init__(config, detector), lines 55-69.
ConfigInit ==
    /\ is_running = FALSE
    /\ message_queue = <<>>
    /\ consumer_closed = FALSE
    /\ producer_closed = FALSE
    /\ is_trained = TRUE
    /\ start_pc = "idle"
    /\ ingest_pc = "idle"
    /\ delivered = 0
    /\ cur = NoMsg
    /\ warnings = 0
    /\ parse_errors = 0
    /\ worker_pc = "idle"
    /\ batch = <<>>
    /\ elapsed = 0
    /\ waited = FALSE
    /\ stop_pc = "idle"
    /\ join_timer = 0
    /\ handled = <<>>
    /\ offered = <<>>
    /\ enqueued = <<>>
    /\ batched = <<>>
    /\ first_age = 0
    /\ lastFlush = [n |-> 0, age |-> 0, reason |-> "none"]
    /\ det_call = NoCall
    /\ topics = EmptyTopics
    /\ redis = EmptyRedis
    /\ sends = <<>>
    /\ last_send = NoSend
    /\ h_calls = <<>>
    /\ h_ops = <<>>
    /\ store_faults = 0
    /\ gm = GmIdle
    /\ b_calls = <<>>
    /\ committed = 0
    /\ max_retries = DefaultMaxRetries
    /\ config \in StreamConfigs
    /\ restarts = 0
    /\ leftover = 0
    /\ w2_ops = <<>>
    /\ models = TrainedModels
    /\ thresholds = ScalerKeys
    /\ disk = EmptyDisk
    /\ life = LifeIdle
    /\ disk_faults = 0

\* Line 204 with the configured timeout.
ConfigFlushOnTimeout(cfg, b, el) == b # <<>> /\ el >= cfg.batch_timeout

\* Lines 211-212 with the configured size and timeout.
ConfigFlushAfterGet(cfg, b, el) ==
    Len(b) >= cfg.batch_size \/ el >= cfg.batch_timeout

\* Lines 202-208 under self.config.
ConfigGetTimeout ==
    /\ worker_pc = "get"
    /\ message_queue = <<>>
    /\ waited
    /\ IF ConfigFlushOnTimeout(config, batch, elapsed)
       THEN Flush("timeout")
       ELSE UNCHANGED <<handled, batched, lastFlush, batch, elapsed, first_age,
                        storeVars>>
    /\ worker_pc' = "loop"
    /\ UNCHANGED <<is_running, message_queue, consumer_closed, producer_closed,
                   is_trained, start_pc, ingest_pc, delivered, cur, warnings,
                   parse_errors, waited, stop_pc, join_timer, offered,
                   enqueued, det_call, hsVars, committed>>

\* Lines 211-215 under self.config.
ConfigFlushCheck ==
    /\ worker_pc = "flush_check"
    /\ IF ConfigFlushAfterGet(config, batch, elapsed)
       THEN Flush(IF Len(batch) >= config.batch_size THEN "size" ELSE "time")
       ELSE UNCHANGED <<handled, batched, lastFlush, batch, elapsed, first_age,
                        storeVars>>
    /\ worker_pc' = "loop"
    /\ UNCHANGED <<is_running, message_queue, consumer_closed, producer_closed,
                   is_trained, start_pc, ingest_pc, delivered, cur, warnings,
                   parse_errors, waited, stop_pc, join_timer, offered,
                   enqueued, det_call, hsVars, committed>>

ConfigNext ==
    \/ Start
    \/ StopRequest
    \/ StopJoin
    \/ StopCloseConsumer
    \/ StopCloseProducer
    \/ IngestNext
    \/ IngestClosed
    \/ IngestIteratorRaises
    \/ IngestCheck
    \/ IngestFull
    \/ IngestPut
    \/ WorkerLoop
    \/ WorkerGet
    \/ ConfigGetTimeout
    \/ ConfigFlushCheck
    \/ WorkerFinal
    \/ Tick

ConfigSpec == ConfigInit /\ [][ConfigNext]_vars

\* ------------------------------------------------ restart specification
\* The pipeline with start() called again after stop() has returned.
\* start(), lines 109-124, after stop() and the return of the first
\* start(): is_running is False, so the flag is set again and a new
\* Thread replaces self.processing_thread. stop() has not tested whether
\* the thread it joined had ended (line 134), and a thread of the earlier
\* run that is still in _process_messages reads the same flag: it is kept
\* in `leftover`, of which the model follows only that it is alive.
StartAgain ==
    /\ start_pc = "called"
    /\ stop_pc = "done"
    /\ ingest_pc = "done"
    /\ ~is_running
    /\ restarts < MaxRestarts
    /\ restarts' = restarts + 1
    /\ leftover' = leftover + (IF WorkerAlive THEN 1 ELSE 0)
    /\ is_running' = TRUE
    /\ worker_pc' = "loop"
    /\ batch' = <<>>
    /\ elapsed' = 0
    /\ first_age' = 0
    /\ waited' = FALSE
    /\ ingest_pc' = "next"
    /\ stop_pc' = "idle"
    /\ join_timer' = 0
    /\ UNCHANGED <<message_queue, consumer_closed, producer_closed, is_trained,
                   start_pc, delivered, cur, warnings, parse_errors, handled,
                   offered, enqueued, batched, lastFlush, det_call, storeVars,
                   h_ops, store_faults, gm, max_retries, last_send, b_calls,
                   config, w2_ops, lifeVars, models, committed>>

\* Line 196 in a thread of an earlier run: it leaves its loop, and ends,
\* only at a loop test that finds is_running False.
LeftoverExit ==
    /\ leftover > 0
    /\ ~is_running
    /\ leftover' = leftover - 1
    /\ UNCHANGED <<is_running, message_queue, consumer_closed, producer_closed,
                   is_trained, start_pc, ingest_pc, delivered, cur, warnings,
                   parse_errors, worker_pc, batch, elapsed, waited, stop_pc,
                   join_timer, handled, offered, enqueued, batched, first_age,
                   lastFlush, det_call, storeVars, h_ops, store_faults, gm,
                   max_retries, last_send, b_calls, config, restarts, w2_ops,
                   lifeVars, models, committed>>

RestartSpec == Init /\ [][Next \/ StartAgain \/ LeftoverExit]_vars

\* ---------------------------------------------- lifecycle specification
\* An AnomalyDetector through train, save_models and load_models, one
\* statement group per step, and the construction of a new detector on
\* the same model directory.
\* Everything the detector's lifecycle leaves alone.
lifeFrame ==
    <<is_running, message_queue, consumer_closed, producer_closed,
      start_pc, ingest_pc, delivered, cur, warnings, parse_errors, worker_pc,
      batch, elapsed, waited, stop_pc, join_timer, handled, offered, enqueued,
      batched, first_age, lastFlush, det_call, storeVars, h_ops, store_faults,
      gm, max_retries, last_send, b_calls, extVars, committed>>

\* The steps of train, in program order.
TrainSteps ==
    <<"isolation_forest", "one_class_svm", "autoencoder", "statistical",
      "thresholds", "set_trained">>

\* The fit calls of train that raise on data they cannot work with:
\* lines 141-142, 146-147 and 151-161. The statistical step repeats a
\* scaling the three before it have done on the same array.
TrainMayRaise == {"isolation_forest", "one_class_svm", "autoencoder"}

\* Entry of train(data), line 119.
TrainCall ==
    /\ life = LifeIdle
    /\ life' = [op |-> "train", i |-> 1]
    /\ UNCHANGED <<is_trained, models, thresholds, disk, disk_faults>>
    /\ UNCHANGED lifeFrame

\* The next step of train succeeds: the fits of lines 141-147 work on the
\* models in place, line 163 stores the fitted autoencoder, line 168 the
\* statistical model, line 175 computes the thresholds and line 177 sets
\* is_trained.
TrainStep ==
    /\ life.op = "train"
    /\ LET step == TrainSteps[life.i] IN
       /\ models' = IF step \in {"autoencoder", "statistical"}
                    THEN [models EXCEPT ![step] = TRUE]
                    ELSE models
       /\ thresholds' = IF step = "thresholds" THEN thresholds \cup ScalerKeys
                        ELSE thresholds
       /\ is_trained' = IF step = "set_trained" THEN TRUE ELSE is_trained
       /\ life' = IF step = "set_trained" THEN LifeIdle
                  ELSE [life EXCEPT !.i = @ + 1]
    /\ UNCHANGED <<disk, disk_faults>>
    /\ UNCHANGED lifeFrame

\* A fit of train raises and train ends there.
TrainRaises ==
    /\ life.op = "train"
    /\ TrainSteps[life.i] \in TrainMayRaise
    /\ life' = LifeIdle
    /\ UNCHANGED <<is_trained, models, thresholds, disk, disk_faults>>
    /\ UNCHANGED lifeFrame

\* Entry of save_models(path), line 334.
SaveCall ==
    /\ life = LifeIdle
    /\ life' = [op |-> "save", i |-> 1]
    /\ UNCHANGED <<is_trained, models, thresholds, disk, disk_faults>>
    /\ UNCHANGED lifeFrame

\* The next write of save_models, lines 337-346: the models in the order
\* of self.models, then scalers and thresholds. model.save on an
\* autoencoder entry that is None raises AttributeError; joblib.dump
\* pickles whatever the entry is, None included.
SaveStep ==
    /\ life.op = "save"
    /\ IF life.i <= Len(Backends)
       THEN LET n == Backends[life.i] IN
            IF n = "autoencoder" /\ ~models[n]
            THEN /\ life' = LifeIdle
                 /\ UNCHANGED disk
            ELSE /\ disk' = [disk EXCEPT !.models[n] =
                                 IF models[n] THEN "object" ELSE "None"]
                 /\ life' = [life EXCEPT !.i = @ + 1]
       ELSE IF life.i = Len(Backends) + 1
       THEN /\ disk' = [disk EXCEPT !.scalers = TRUE]
            /\ life' = [life EXCEPT !.i = @ + 1]
       ELSE /\ disk' = [disk EXCEPT !.thresholds =
                            [saved |-> TRUE, keys |-> thresholds]]
            /\ life' = LifeIdle
    /\ UNCHANGED <<is_trained, models, thresholds, disk_faults>>
    /\ UNCHANGED lifeFrame

\* The next write of save_models raises (the directory is missing, the
\* disk is full): the file is not written and save_models ends there.
SaveRaises ==
    /\ life.op = "save"
    /\ disk_faults < MaxDiskFaults
    /\ disk_faults' = disk_faults + 1
    /\ life' = LifeIdle
    /\ UNCHANGED <<is_trained, models, thresholds, disk>>
    /\ UNCHANGED lifeFrame

\* Entry of load_models(path), line 351.
LoadCall ==
    /\ life = LifeIdle
    /\ life' = [op |-> "load", i |-> 1]
    /\ UNCHANGED <<is_trained, models, thresholds, disk, disk_faults>>
    /\ UNCHANGED lifeFrame

\* The next read of load_models, lines 354-366: each entry of self.models
\* is replaced by what its file holds, a missing file raises and ends the
\* call with the entries replaced so far; after the last read
\* self.thresholds is what thresholds.pkl holds and is_trained is set.
LoadStep ==
    /\ life.op = "load"
    /\ IF life.i <= Len(Backends)
       THEN LET n == Backends[life.i] IN
            IF disk.models[n] = "absent"
            THEN /\ life' = LifeIdle
                 /\ UNCHANGED <<models, thresholds, is_trained>>
            ELSE /\ models' = [models EXCEPT ![n] = (disk.models[n] = "object")]
                 /\ life' = [life EXCEPT !.i = @ + 1]
                 /\ UNCHANGED <<thresholds, is_trained>>
       ELSE IF life.i = Len(Backends) + 1
       THEN /\ life' = IF disk.scalers THEN [life EXCEPT !.i = @ + 1]
                       ELSE LifeIdle
            /\ UNCHANGED <<models, thresholds, is_trained>>
       ELSE IF disk.thresholds.saved
       THEN /\ thresholds' = disk.thresholds.keys
            /\ is_trained' = TRUE
            /\ life' = LifeIdle
            /\ UNCHANGED models
       ELSE /\ life' = LifeIdle
            /\ UNCHANGED <<models, thresholds, is_trained>>
    /\ UNCHANGED <<disk, disk_faults>>
    /\ UNCHANGED lifeFrame

\* AnomalyDetector(), lines 44-55, in a new process: a fresh detector on
\* the model directory the earlier one left.
NewDetector ==
    /\ life = LifeIdle
    /\ is_trained' = FALSE
    /\ models' = InitialModels
    /\ thresholds' = ScalerKeys
    /\ UNCHANGED <<life, disk, disk_faults>>
    /\ UNCHANGED lifeFrame

LifecycleNext ==
    \/ TrainCall
    \/ TrainStep
    \/ TrainRaises
    \/ SaveCall
    \/ SaveStep
    \/ SaveRaises
    \/ LoadCall
    \/ LoadStep
    \/ NewDetector

LifecycleSpec == DetInit /\ [][LifecycleNext]_vars


\* ================================================================ claims
\* Backends that answered in the current detector call, and those among
\* them that flagged an anomaly.
Succeeded == {i \in 1..Len(Backends) : det_call.outs[i] # Raise}
Flagged == {i \in Succeeded : det_call.outs[i].is_anomaly}

\* An ensemble call on a trained detector is in progress.
TrainedCall ==
    det_call # NoCall /\ det_call.trained /\ det_call.kind = "ensemble"

\* C9: _ensemble_detection returns is_anomaly = TRUE exactly when the
\* successful verdicts that flag an anomaly are strictly more than half of
\* the successful verdicts; on an exact tie is_anomaly is FALSE.
C9_StrictMajority ==
    (TrainedCall /\ Succeeded # {}) =>
        /\ det_call.ret.is_anomaly
              <=> (2 * Cardinality(Flagged) > Cardinality(Succeeded))
        /\ (2 * Cardinality(Flagged) = Cardinality(Succeeded))
              => ~det_call.ret.is_anomaly

\* A call in which exactly two of four answering backends flag an anomaly.
C9_Witness ==
    /\ TrainedCall
    /\ Cardinality(Succeeded) = 4
    /\ Cardinality(Flagged) = 2
    /\ ~det_call.ret.is_anomaly

\* The i-th backend, in order, that answered.
NthSucceeded(n) ==
    CHOOSE i \in Succeeded : Cardinality({j \in Succeeded : j <= i}) = n

\* C10: a backend that raises is left out of the vote and the data point is
\* still evaluated: with k >= 1 answering backends the result is computed
\* from exactly those k verdicts and no error is raised; the "No models
\* could process" error is raised exactly when every backend raises.
C10_FailedBackendExcluded ==
    TrainedCall =>
        /\ Len(det_call.results) = Cardinality(Succeeded)
        /\ \A n \in 1..Len(det_call.results) :
              det_call.results[n] = det_call.outs[NthSucceeded(n)]
        /\ IsError(det_call.ret) <=> (Succeeded = {})
        /\ IsError(det_call.ret) => det_call.ret.error = NoModelError
        /\ ~IsError(det_call.ret) =>
              /\ det_call.ret.conf_n = Cardinality(Succeeded)
              /\ det_call.ret.is_anomaly
                    <=> (2 * Cardinality(Flagged) > Cardinality(Succeeded))

\* One backend raises, the other three answer, and a result is returned
\* that reflects three verdicts.
C10_Witness ==
    /\ TrainedCall
    /\ Cardinality(Succeeded) = 3
    /\ ~IsError(det_call.ret)
    /\ det_call.ret.conf_n = 3


\* ------------------------------------------------------ pipeline claims
Range(f) == {f[i] : i \in DOMAIN f}

\* Number of positions of sequence f that hold x.
Count(f, x) == Cardinality({i \in DOMAIN f : f[i] = x})

HandledIds == [i \in DOMAIN handled |-> handled[i].id]

\* Both loops have ended and stop() has returned.
Stopped == worker_pc = "done" /\ ingest_pc = "done" /\ stop_pc = "done"

\* C1: every event the Ingestor puts into message_queue is, through a
\* graceful stop, placed in exactly one batch passed to _process_batch and
\* has exactly one result handled by _handle_anomaly_result; only events
\* dropped on a full queue produce no result, and each drop is logged.
C1_EveryEnqueuedEventHandled ==
    Stopped =>
        /\ \A id \in Range(enqueued) :
              Count(batched, id) = 1 /\ Count(HandledIds, id) = 1
        /\ warnings = Len(offered) - Len(enqueued)

\* StreamProcessor has no attribute that counts dropped messages (__init__,
\* lines 55-69) and the drop branch, lines 162-163, only logs a warning:
\* the set of dropped-message counters a reader can consult.
DroppedCounters == {}

\* The Worker has taken nothing from the queue.
NothingConsumed == batch = <<>> /\ batched = <<>>

\* C2: with capacity C and nothing consumed, after k > C arrivals the queue
\* holds exactly the first C events in arrival order, the later k - C are
\* dropped, and a dropped-message counter equals k - C.
C2_DropNewestCounted ==
    (NothingConsumed /\ ingest_pc = "next" /\ Len(offered) > QueueMaxsize) =>
        /\ message_queue = SubSeq(offered, 1, QueueMaxsize)
        /\ enqueued = SubSeq(offered, 1, QueueMaxsize)
        /\ \E c \in DroppedCounters : c = Len(offered) - QueueMaxsize

\* C3: the Ingestor never blocks on the bounded queue: whenever it is
\* about to execute message_queue.put, under every interleaving with the
\* Worker's get, the queue has a free slot.
C3_PutNeverBlocks ==
    ingest_pc = "put" => Len(message_queue) < QueueMaxsize

\* The Ingestor is about to put into the last free slot after the Worker
\* has taken a message out of the queue.
C3_Witness ==
    /\ ingest_pc = "put"
    /\ Len(message_queue) = QueueMaxsize - 1
    /\ Len(enqueued) >= QueueMaxsize
    /\ batch # <<>>

\* C4: while running, the Worker flushes the buffer only when its size has
\* reached batch_size or batch_timeout has elapsed since the first event of
\* that buffer was appended.
C4_FlushOnlyWhenFullOrAged ==
    lastFlush.reason \in {"size", "time", "timeout"} =>
        lastFlush.n >= BatchSize \/ lastFlush.age >= BatchTimeout

\* C5: a non-empty buffer is eventually flushed by the Worker even when no
\* further event arrives: every buffered event is eventually passed to
\* _process_batch.
C5_BufferEventuallyFlushed ==
    \A id \in 1..MaxEvents :
        (id \in Range(batch)) ~> (id \in Range(batched))

\* One event fewer than batch_size arrived, no further one, and the timeout
\* branch flushed a batch of exactly those events while the pipeline was
\* still running.
C5_Witness ==
    /\ delivered = BatchSize - 1
    /\ is_running
    /\ lastFlush.reason = "timeout"
    /\ lastFlush.n = BatchSize - 1
    /\ lastFlush.n >= 1
    /\ batched = [i \in 1..(BatchSize - 1) |-> i]

\* C6, as claimed: after a stop request the Worker calls _process_batch on
\* any non-empty buffer before _process_messages terminates and before the
\* producer is closed.
C6_FinalFlushBeforeClose ==
    /\ worker_pc = "done" => Range(batch) \subseteq Range(batched)
    /\ producer_closed => worker_pc = "done"

\* C6, amended: the final flush precedes the termination of
\* _process_messages, and it precedes the closing of the producer whenever
\* the join of stop() returned before its timeout expired.
C6_FinalFlushBeforeCloseUnlessJoinTimeout ==
    /\ worker_pc = "done" => Range(batch) \subseteq Range(batched)
    /\ (producer_closed /\ join_timer < JoinTimeout) =>
          /\ worker_pc = "done"
          /\ Range(batch) \subseteq Range(batched)

\* stop() has closed the producer after a join that did not time out, and
\* the Worker's last act was the final flush of a non-empty buffer.
C6_Witness ==
    /\ producer_closed
    /\ join_timer < JoinTimeout
    /\ worker_pc = "done"
    /\ lastFlush.reason = "final"
    /\ batch # <<>>

\* C7: stop() closes the consumer and the producer only after both the
\* Ingestor loop and the Worker loop have exited, or after the drain
\* timeout has elapsed.
C7_CloseAfterBothLoopsExit ==
    (consumer_closed \/ producer_closed) =>
        \/ (ingest_pc = "done" /\ worker_pc = "done")
        \/ join_timer >= JoinTimeout

\* C8: after stop() has cleared is_running, the pull loop of
\* _consume_messages eventually exits, whether or not the broker delivers
\* another record.
C8_PullLoopExitsAfterStop ==
    (stop_pc # "idle") ~> (ingest_pc = "done")

\* The calls of _handle_anomaly_result that have returned.
CompletedCalls ==
    IF h_ops = <<>> THEN h_calls ELSE SubSeq(h_calls, 1, Len(h_calls) - 1)

\* Positions in `sends` of the _publish_message calls for one topic and id.
SendsOf(topic, id) ==
    {i \in 1..Len(sends) : sends[i].topic = topic /\ sends[i].id = id}

\* What a consumer of a topic reads at position k: the k-th record of the
\* topic through the value deserializer.
Received(topic, k) == ValueDeserializer(topics[topic][k])

\* Ids of the records in a topic.
TopicIds(topic) == {Received(topic, k)["id"] : k \in 1..Len(topics[topic])}

\* C11: every call of _handle_anomaly_result that has returned has
\* published its result to the output topic exactly once, whatever
\* is_anomaly is; it has published an alert to the alert topic, and
\* written the alert to the store, exactly when is_anomaly is TRUE; no
\* alert is in the alert topic or in the store for a result that is not
\* anomalous. (A record is in a topic when its send was acknowledged, and
\* the alert is in the store when no store call raised.)
C11_AlertIffAnomaly ==
    /\ \A i \in 1..Len(CompletedCalls) :
          LET c == h_calls[i] IN
          /\ Cardinality(SendsOf("output", c.id)) = 1
          /\ Cardinality(SendsOf("alert", c.id))
                = (IF c.result.is_anomaly THEN 1 ELSE 0)
          /\ \A j \in SendsOf("output", c.id) \cup SendsOf("alert", c.id) :
                sends[j].acked <=> c.id \in TopicIds(sends[j].topic)
          /\ c.id \in DOMAIN redis.alerts => c.result.is_anomaly
          /\ (c.result.is_anomaly /\ store_faults = 0)
                => c.id \in DOMAIN redis.alerts
    /\ \A k \in 1..Len(topics.alert) :
          h_calls[Received("alert", k)["id"]].result.is_anomaly
    /\ \A k \in 1..Len(topics.output) :
          Received("output", k)["is_anomaly"]
            = h_calls[Received("output", k)["id"]].result.is_anomaly
    /\ \A k \in 1..Len(redis.recent_alerts) :
          h_calls[redis.recent_alerts[k]].result.is_anomaly

\* An anomalous and a normal result have both been handled with every
\* send acknowledged and no store failure: two results are out, one alert
\* is out and stored.
C11_Witness ==
    /\ h_ops = <<>>
    /\ Len(h_calls) = 2
    /\ h_calls[1].result.is_anomaly
    /\ ~h_calls[2].result.is_anomaly
    /\ TopicIds("output") = {1, 2}
    /\ TopicIds("alert") = {1}
    /\ DOMAIN redis.alerts = {1}

\* C12: the severity of every alert in the alert topic is "high" when the
\* confidence of the result it was made from is strictly above 0.8, and
\* "medium" otherwise: 0.85 gives high, 0.6 and exactly 0.8 give medium.
C12_SeverityHighAbovePoint8 ==
    \A k \in 1..Len(topics.alert) :
        LET m == Received("alert", k)
            r == h_calls[m["id"]].result
        IN /\ m["severity"] \in {"high", "medium"}
           /\ m["severity"] = "high" <=> 10 * r.conf_sum > 8 * 10 * r.conf_n
           /\ (20 * r.conf_sum = 17 * 10 * r.conf_n) => m["severity"] = "high"
           /\ (10 * r.conf_sum = 6 * 10 * r.conf_n) => m["severity"] = "medium"
           /\ (10 * r.conf_sum = 8 * 10 * r.conf_n) => m["severity"] = "medium"

\* Alerts at exactly 0.8 and at 0.85 are both in the alert topic.
C12_Witness ==
    /\ \E k \in 1..Len(topics.alert) :
          LET m == Received("alert", k) IN
          /\ m["confidence"].sum = 8 * m["confidence"].n
          /\ m["severity"] = "medium"
    /\ \E k \in 1..Len(topics.alert) :
          LET m == Received("alert", k) IN
          /\ 20 * m["confidence"].sum = 170 * m["confidence"].n
          /\ m["severity"] = "high"

\* C13: a send whose transmissions fail is retried up to
\* config.max_retries times: after f failed transmissions the message has
\* been transmitted min(f, max_retries) + 1 times and is acknowledged
\* exactly when f <= max_retries; the failure never leaves
\* _publish_message.
C13_RetriesUpToMaxRetries ==
    (last_send # NoSend /\ last_send.attempts > 0) =>
        /\ last_send.attempts = Min(last_send.failures, max_retries) + 1
        /\ last_send.acked <=> last_send.failures <= max_retries
        /\ ~last_send.raised

\* C14: whenever no _handle_anomaly_result call is in progress, that is
\* after any sequence of alert stores, the recent_alerts list holds at
\* most RecentAlertsMax entries (100 in the program).
C14_RecentAlertsBounded ==
    h_ops = <<>> => Len(redis.recent_alerts) <= RecentAlertsMax

\* get_metrics has a value to return that carries the metrics.
GmReturnsMetrics == gm.pc = "return" /\ "anomaly_rate" \in DOMAIN gm.ret

\* C15: every anomaly_rate get_metrics returns is in [0,1], and is 0.0
\* when the total_processed it read is 0, also when its reads interleave
\* with the increments of _update_metrics.
C15_AnomalyRateInUnitInterval ==
    GmReturnsMetrics =>
        /\ 0 <= gm.ret.anomaly_rate.num
        /\ gm.ret.anomaly_rate.num <= gm.ret.anomaly_rate.den
        /\ gm.ret.total_processed = 0 => gm.ret.anomaly_rate.num = 0

\* The metrics get_metrics returns when nothing has been recorded.
ZeroMetrics ==
    /\ "total_processed" \in DOMAIN gm.ret
    /\ gm.ret.total_processed = 0
    /\ "anomalies_detected" \in DOMAIN gm.ret
    /\ gm.ret.anomalies_detected = 0
    /\ GmReturnsMetrics
    /\ gm.ret.anomaly_rate = [num |-> 0, den |-> 1]
    /\ "queue_size" \in DOMAIN gm.ret
    /\ "is_running" \in DOMAIN gm.ret

\* A step of get_metrics leaves the store, the topics and the queue alone.
GmChangesNoState ==
    [][gm' # gm => UNCHANGED <<redis, topics, message_queue, is_running>>]_vars

C17_LoopsSurviveFailures ==
    (ingest_pc = "done" \/ worker_pc \in {"final", "done"}) => ~is_running

\* C18: every offset committed belongs to a record that has been put into
\* message_queue.
C18_CommitAfterHandOff ==
    \A id \in 1..committed : id \in Range(enqueued)

\* A detect_anomaly call is in progress.
InCall == det_call # NoCall

\* C19: detect_anomaly on a trained detector with a model_name that is
\* neither 'ensemble' nor a registered backend fails with the "Unknown
\* model" error of _single_model_detection and returns no verdict.
C19_UnknownModelError ==
    (InCall /\ det_call.trained /\ det_call.kind = "single"
            /\ det_call.model_name \notin ScalerKeys) =>
        det_call.ret = [error |-> UnknownModelError]

\* C20: detect_anomaly on an untrained detector raises "Models must be
\* trained before detection" for every model_name, enters no backend and
\* leaves the detector's state as it was; a call returns a result only on
\* a trained detector, and is_trained is set by train/load_models alone.
C20_UntrainedRejected ==
    /\ [][(det_call = NoCall /\ det_call' # NoCall /\ ~is_trained) =>
            /\ det_call'.ret = [error |-> UntrainedError]
            /\ det_call'.invoked = {}
            /\ is_trained' = is_trained]_vars
    /\ []((InCall /\ ~IsError(det_call.ret)) => det_call.trained)
    /\ [][(~is_trained /\ is_trained') => det_call' = det_call]_vars

\* A single-backend call on an untrained detector, on a data point the
\* named backend could score, is rejected.
C20_Witness ==
    /\ InCall
    /\ ~det_call.trained
    /\ det_call.model_name = "statistical"
    /\ det_call.outs[BackendIndex("statistical")] # Raise
    /\ det_call.ret = [error |-> UntrainedError]


\* ------------------------------------------- alert and result records

\* C21: every alert record in the alert topic contains every field of the
\* result record of the same event in the output topic (id, timestamp,
\* source, is_anomaly, confidence, score, model_used, features, metadata)
\* with the same value, and the fields severity and message besides.
C21_AlertCarriesResultFields ==
    \A k \in 1..Len(topics.alert) :
        \A j \in 1..Len(topics.output) :
            LET a == Received("alert", k)
                o == Received("output", j)
            IN (a["id"] = o["id"])
                  => /\ \A f \in DOMAIN o : f \in DOMAIN a /\ a[f] = o[f]
                     /\ {"severity", "message"} \subseteq DOMAIN a

Scorable ==
    {p \in {<<j, i>> : j \in 1..Len(b_calls), i \in 1..BatchSize} :
        /\ p[2] <= Len(b_calls[p[1]].msgs)
        /\ ~IsError(DetectAnomaly(is_trained, b_calls[p[1]].outs[p[2]]))}

\* C23: an event of a batch that the detector can score has its result in
\* the output topic and is counted in total_processed, whatever happens
\* to the other events of its batch: an event no backend can score drops
\* only itself.
C23_FailureDropsOnlyThatEvent ==
    /\ \A p \in Scorable :
          LET id == b_calls[p[1]].msgs[p[2]] IN
          /\ id \in Range(HandledIds)
          /\ id \in TopicIds("output")
    /\ (\A j \in 1..Len(b_calls) : b_calls[j].store_ok)
          => IntOrZero(redis.total_processed) = Cardinality(Scorable)


\* C24: the buffer of the worker loop never holds more than batch_size
\* events; a buffer that has reached batch_size is flushed before the
\* loop takes another event (at the loop test and at the queue read it is
\* below batch_size); and the buffer is empty right after every flush of
\* the loop, also when nothing of the batch could be handled.
C24_BufferBounded ==
    /\ [](/\ BatchSize >= 1
          /\ Len(batch) <= BatchSize
          /\ worker_pc \in {"loop", "get", "final"} => Len(batch) < BatchSize)
    /\ [][(batched' # batched /\ worker_pc # "final") => batch' = <<>>]_vars

\* A full batch with an event no backend could score has been flushed on
\* size: nothing was handled and the buffer is empty.
C24_Witness ==
    /\ lastFlush.reason = "size"
    /\ lastFlush.n = BatchSize
    /\ Len(batched) = BatchSize
    /\ handled = <<>>
    /\ batch = <<>>
    /\ worker_pc = "loop"


\* ------------------------------------------------------------ metrics

\* The calls of _handle_anomaly_result so far whose result is anomalous.
AnomalousCalls == {i \in 1..Len(h_calls) : h_calls[i].result.is_anomaly}

CallsInDecile(b) ==
    {i \in 1..Len(h_calls) :
        LET r == h_calls[i].result IN
        /\ b * r.conf_n <= r.conf_sum
        /\ r.conf_sum < (b + 1) * r.conf_n}

\* C26: only the ten decile buckets 0..9 of the confidence histogram are
\* ever incremented, and once the handler has returned with no store
\* failure each result with confidence c has incremented the bucket
\* floor(10 c) and no other.
C26_OnlyDecileBuckets ==
    /\ DOMAIN redis.confidence_histogram \subseteq 0..9
    /\ (store_faults = 0 /\ h_ops = <<>>)
          => \A b \in 0..10 :
                IF b \in DOMAIN redis.confidence_histogram
                THEN redis.confidence_histogram[b]
                        = Cardinality(CallsInDecile(b))
                ELSE CallsInDecile(b) = {}


\* ----------------------------------------------------------- detector

\* The data point of the call in det_call has been evaluated a second
\* time.
EvaluatedTwice == InCall /\ "again" \in DOMAIN det_call

AllScorable(j) ==
    \A i \in 1..Len(b_calls[j].msgs) :
        ~IsError(DetectAnomaly(is_trained, b_calls[j].outs[i]))

\* The (message, result) pairs the first j _process_batch calls have to
\* hand to the handler, in order: batch after batch, and within a batch
\* the i-th message with the evaluation of the i-th data point.
RECURSIVE PairsInOrder(_)
PairsInOrder(j) ==
    IF j = 0 THEN <<>>
    ELSE PairsInOrder(j - 1)
         \o (IF AllScorable(j)
             THEN [i \in 1..Len(b_calls[j].msgs) |->
                     [id     |-> b_calls[j].msgs[i],
                      result |-> DetectAnomaly(is_trained,
                                               b_calls[j].outs[i])]]
             ELSE <<>>)

\* C28: the handler is called with the i-th message of a batch together
\* with the evaluation of the i-th data point, message after message in
\* buffer order and batch after batch in the order the batches were
\* formed, and the records of the output topic follow in the same order.
C28_OrderPreserved ==
    /\ h_calls = PairsInOrder(Len(b_calls))
    /\ Len(topics.output) = Len(h_calls)
    /\ \A k \in 1..Len(topics.output) :
          /\ Received("output", k)["id"] = h_calls[k].id
          /\ k > 1 => Received("output", k - 1)["id"]
                        < Received("output", k)["id"]

\* Two batches have been processed, the first one of two events with
\* different verdicts, and every event has its result out.
C28_Witness ==
    /\ Len(b_calls) = 2
    /\ Len(b_calls[1].msgs) = 2
    /\ Len(h_calls) >= 3
    /\ Len(topics.output) = Len(h_calls)
    /\ h_calls[1].result.is_anomaly
    /\ ~h_calls[2].result.is_anomaly


\* ------------------------------------------------------------ parsing

SetexRaised ==
    \E i \in 1..Len(CompletedCalls) :
        /\ h_calls[i].result.is_anomaly
        /\ h_calls[i].id \notin DOMAIN redis.alerts

SendsBefore(first, second, id) ==
    \A i \in SendsOf(first, id), j \in SendsOf(second, id) : i < j

\* C35: the handler attempts the result publish, then for an anomalous
\* result the alert publish, then stores the alert, then updates the
\* metrics. An alert that is in the store had its result publish and its
\* alert publish attempted before, in that order; when total_processed is
\* incremented the publishes of the result being handled have been
\* attempted and, with no store failure, its alert is stored; and a
\* publish that was not acknowledged keeps neither the alert store nor the
\* metrics update from happening.
C35_FixedEffectOrder ==
    /\ [](\A i \in 1..Len(h_calls) :
            LET c == h_calls[i] IN
            (c.id \in DOMAIN redis.alerts \/ c.id \in Range(redis.recent_alerts))
               => /\ SendsOf("output", c.id) # {}
                  /\ SendsOf("alert", c.id) # {}
                  /\ SendsBefore("output", "alert", c.id))
    /\ [][(redis'.total_processed # redis.total_processed)
            => LET c == h_calls[Len(h_calls)] IN
               /\ SendsOf("output", c.id) # {}
               /\ c.result.is_anomaly
                     => /\ SendsOf("alert", c.id) # {}
                        /\ store_faults = 0
                              => /\ c.id \in DOMAIN redis.alerts
                                 /\ c.id \in Range(redis.recent_alerts)]_vars
    /\ []((h_ops = <<>> /\ store_faults = 0)
            => /\ IntOrZero(redis.total_processed) = Len(h_calls)
               /\ \A i \in AnomalousCalls :
                     h_calls[i].id \in DOMAIN redis.alerts)

\* An anomalous result has been handled whose result publish and alert
\* publish were both not acknowledged: its alert is stored and it is
\* counted.
C35_Witness ==
    /\ h_ops = <<>>
    /\ store_faults = 0
    /\ Len(h_calls) = 1
    /\ h_calls[1].result.is_anomaly
    /\ Len(sends) = 2
    /\ ~sends[1].acked
    /\ ~sends[2].acked
    /\ 1 \in DOMAIN redis.alerts
    /\ redis.total_processed = 1
    /\ redis.anomalies_detected = 1


\* ------------------------------------------------ metrics agreement

\* The sum of the values of a hash.
RECURSIVE DictSum(_)
DictSum(h) ==
    IF DOMAIN h = {} THEN 0
    ELSE LET k == CHOOSE x \in DOMAIN h : TRUE IN
         h[k] + DictSum([x \in DOMAIN h \ {k} |-> h[x]])

\* hget(name, key) or 0.
HGetOrZero(h, k) == IF k \in DOMAIN h THEN h[k] ELSE 0

\* No call of _process_batch so far met a store that raises.
NoStoreFailure == \A j \in 1..Len(b_calls) : b_calls[j].store_ok

C34_AnomaliesAtMostTotal ==
    IntOrZero(redis.anomalies_detected) <= IntOrZero(redis.total_processed)

\* Two anomalous results were taken up, one by each worker; a store call
\* of one update raised, and the first worker is still inside its update
\* while the counters are level at one.
C34_Witness ==
    /\ Len(h_calls) = 2
    /\ \A i \in 1..2 : h_calls[i].result.is_anomaly
    /\ store_faults > 0
    /\ h_ops # <<>>
    /\ redis.total_processed = 1
    /\ redis.anomalies_detected = 1


\* ------------------------------------------------- configuration

\* batch_size >= 1, batch_timeout > 0 and queue capacity >= batch_size.
ConfigValid(cfg) ==
    /\ cfg.batch_size >= 1
    /\ cfg.batch_timeout > 0
    /\ QueueMaxsize >= cfg.batch_size

\* C31: a pipeline that is running, or has handled a batch, was
\* constructed with batch_size >= 1, batch_timeout > 0 and a queue
\* capacity of at least batch_size.
C31_RunsOnlyValidConfig ==
    (is_running \/ lastFlush.n > 0) => ConfigValid(config)


\* ------------------------------------------------------ one worker

\* Threads executing _process_messages that are alive.
WorkersAlive == leftover + (IF WorkerAlive THEN 1 ELSE 0)

\* C33: across start() and stop() calls at most one thread executing
\* _process_messages is alive.
C33_AtMostOneWorker == WorkersAlive <= 1


\* ------------------------------------------------ trained detector

\* C36: is_trained is true only if each of the four backends has a model
\* that is not None and a threshold.
C36_TrainedHasAllModels ==
    is_trained => \A n \in ScalerKeys : models[n] /\ n \in thresholds

=============================================================================
